---- MODULE Spec2Model ----
(***************************************************************************)
(* Perception Toolkit: the reconciliation engine (MeaningMaker and         *)
(* ArtifactDealer) and the frame loop of PerceptionToolkit that drives it. *)
(*                                                                         *)
(* Time is performance.now() in abstract units; strings are sequences of   *)
(* characters, so that generateMarkerId is a real concatenation.  A JS Map *)
(* or Set is a sequence in insertion order.  An async function is cut at   *)
(* its awaits: every action is one run-to-completion segment.              *)
(***************************************************************************)
EXTENDS Integers, Sequences, FiniteSets, TLC

\* Largest clock reading of a behaviour.
MaxTime == 3
\* Largest advance of the clock between two readings.
MaxStep == 3
\* The long debounce window (stands for the default of 2000 ms); the other
\* window a run may set is 0.
MaxBuffer == 2

\* most calls of ArtifactLoader.fromUrl in a behaviour
MaxLoads == 2
MaxRestarts == 1

VARIABLES
  clock,                  \* last value returned by performance.now()
  lastSeenTimeBuffer,     \* MeaningMaker._lastSeenTimeBuffer
  lastSeenMarkers,        \* MeaningMaker.lastSeenMarkers  (Map, insertion order)
  lastSeenImages,         \* MeaningMaker.lastSeenImages   (Map, insertion order)
  prevPerceptionResults,  \* MeaningMaker.prevPerceptionResults (Set, insertion order)
  artstores,              \* ArtifactDealer.artstores
  calls,                  \* the updatePerceptionState invocations, by caller
  artifactsForUrl,        \* MeaningMaker.artifactsForUrl (the keys of the Map)
  pending,                \* the fetches of ArtifactLoader.fromUrl in flight
  fromUrlCalls,           \* calls of ArtifactLoader.fromUrl, by URL
  saves,                  \* calls of saveArtifacts in loadArtifactsFromUrl, by URL
  gate,                   \* history: the last direct loadArtifactsFromSupportedUrl
  dealt,                  \* a direct call of an ArtifactDealer method
  life,                   \* history: the calls of stop() and start() so far
  notice,                 \* history: the targets the caller was not told of
  lastObserved,           \* history: target -> clock reading of its last observation
  shown,                  \* history: found/lost deltas applied by the caller
  scenario,               \* history: progress along the find/keep/lose scenario
  rel,                    \* history: how the invocation relates to the one before
  isProcessingFrame,      \* PerceptionToolkit.isProcessingFrame
  captureActive,          \* StreamCapture started (frames are being emitted)
  beginPc,                \* position of PerceptionToolkit.beginDetection
  framePc,                \* position of PerceptionToolkit.onCaptureFrame
  frameParity,            \* history: parity of the captureFrame events so far
  ui,                     \* the toolkit's configuration, card container and last events
  det,                    \* the planar image Detector, its worker and the messages between
  card                    \* the OnboardingCard element and PerceptionToolkit.start()

mmVars == <<clock, lastSeenTimeBuffer, lastSeenMarkers, lastSeenImages,
            prevPerceptionResults, artstores, calls,
            artifactsForUrl, pending, fromUrlCalls, saves>>
histVars == <<lastObserved, shown, scenario, rel, gate, dealt, life, notice>>
pageVars == <<ui, det, card>>
tkVars == <<isProcessingFrame, captureActive, beginPc, framePc, frameParity,
            pageVars>>
vars == <<mmVars, histVars, tkVars>>

-----------------------------------------------------------------------------
(* Data *)

MarkerX == [type |-> <<"q">>, value |-> <<"X">>]
ImageL == [id |-> <<"L">>]
AllMarkers == {MarkerX}
AllImages == {ImageL}

NoGeo == "none"
Geo1 == "g1"

\* URLs as strings: scheme "h", ":", a host character, a path
UrlA == <<"h", ":", "a", "/">>
UrlB == <<"h", ":", "b", "/">>
Urls == {UrlA, UrlB}
PageOrigin == <<"h", ":", "a">>
OtherOrigin == <<"h", ":", "b">>

\* markers whose value is a URL of the page's origin, or of another origin
MarkerU == [type |-> <<"q">>, value |-> UrlA]
MarkerB == [type |-> <<"q">>, value |-> UrlB]

\* new URL(value): throws unless the value is an absolute URL
NewURL(value) ==
  IF Len(value) >= 3 /\ value[1] = "h" /\ value[2] = ":"
  THEN [ok |-> TRUE, href |-> value, origin |-> SubSeq(value, 1, 3)]
  ELSE [ok |-> FALSE, href |-> <<>>, origin |-> <<>>]

\* shouldLoadArtifactsFrom: omitted, a list of origins, or a callback (given
\* by the URLs it answers true for)
Omitted == [kind |-> "omitted", origins |-> <<>>, accepts |-> {}]
OriginList(origins) == [kind |-> "list", origins |-> origins, accepts |-> {}]
Callback(accepts) == [kind |-> "fn", origins |-> <<>>, accepts |-> accepts]

Separator == <<"_", "_">>

generateMarkerId(marker) == marker.type \o Separator \o marker.value

\* Map.has / Map.set / Map.values of a JS Map kept as a sequence of entries.
MapHas(map, key) == \E i \in 1..Len(map) : map[i].key = key

MapSet(map, key, val, ts) ==
  LET entry == [key |-> key, val |-> val, timestamp |-> ts]
  IN IF MapHas(map, key)
     THEN [i \in 1..Len(map) |-> IF map[i].key = key THEN entry ELSE map[i]]
     ELSE Append(map, entry)

MapValues(map) == [i \in 1..Len(map) |-> map[i].val]

\* Set.has and new Set(array) of a JS Set kept as a duplicate-free sequence.
SetHas(set, x) == \E i \in 1..Len(set) : set[i] = x

RECURSIVE SetAddAll(_, _)
SetAddAll(set, arr) ==
  IF arr = <<>> THEN set
  ELSE SetAddAll(IF SetHas(set, Head(arr)) THEN set ELSE Append(set, Head(arr)),
                 Tail(arr))

\* faulty variant: the array is kept as it is
NewSetKeepsDuplicates(arr) == arr

NewSet(arr) == SetAddAll(<<>>, arr)

Elems(seq) == {seq[i] : i \in 1..Len(seq)}

RECURSIVE flat(_)
flat(arrays) ==
  IF arrays = <<>> THEN <<>> ELSE Head(arrays) \o flat(Tail(arrays))

-----------------------------------------------------------------------------
(* Artifact stores.  A store is [find, detect, entries, images]: whether it  *)
(* has findRelevantArtifacts / getDetectableImages, its PerceptionResult     *)
(* objects (ref is the object identity) with the target that triggers each,  *)
(* and its catalog of detectable image ids.                                  *)

LocalStore ==
  [find |-> TRUE, detect |-> TRUE,
   entries |-> << [ref |-> "A", kind |-> "marker", key |-> <<"X">>],
                  [ref |-> "B", kind |-> "image", key |-> <<"L">>] >>,
   images |-> << <<"L">> >>]

CustomStore ==
  [find |-> TRUE, detect |-> FALSE,
   entries |-> << [ref |-> "M", kind |-> "marker", key |-> <<"X">>],
                  [ref |-> "M", kind |-> "image", key |-> <<"L">>],
                  [ref |-> "G", kind |-> "geo", key |-> Geo1] >>,
   images |-> <<>>]

\* a store with getDetectableImages alone, and a store with neither method
CatalogStore ==
  [find |-> FALSE, detect |-> TRUE, entries |-> <<>>,
   images |-> << <<"L">>, <<"K">> >>]

\* a store whose getDetectableImages offers image N only when it is shown
\* marker X
NearbyStore ==
  [find |-> FALSE, detect |-> TRUE,
   entries |-> << [ref |-> <<"N">>, kind |-> "catalog", key |-> <<"X">>] >>,
   images |-> <<>>]

BareStore == [find |-> FALSE, detect |-> FALSE, entries |-> <<>>, images |-> <<>>]

StoreConfigs == { <<LocalStore>>, <<LocalStore, CustomStore>> }

EntryRefs(entries, kind, key) ==
  LET Match(e) == e.kind = kind /\ e.key = key
      hit == SelectSeq(entries, Match)
  IN [i \in 1..Len(hit) |-> hit[i].ref]

\* ArtifactStore.findRelevantArtifacts: the results triggered by the markers
\* (by value, in the order of the state), then the geo, then the images.
findRelevantArtifacts(store, state) ==
  flat([i \in 1..Len(state.markers) |->
          EntryRefs(store.entries, "marker", state.markers[i].value)])
  \o EntryRefs(store.entries, "geo", state.geo)
  \o flat([i \in 1..Len(state.images) |->
          EntryRefs(store.entries, "image", state.images[i].id)])

\* ArtifactStore.getDetectableImages: the store's catalog, and for a store
\* that answers by what it is shown (entries of kind "catalog") the images it
\* offers for the markers of the state handed to it
getDetectableImages(store, state) ==
  store.images
  \o flat([i \in 1..Len(state.markers) |->
            EntryRefs(store.entries, "catalog", state.markers[i].value)])

-----------------------------------------------------------------------------
(* ArtifactDealer *)

\* faulty variant: the aggregator tolerates a rejecting store and uses the others
PromiseAllSettled(results, rejecting) ==
  [ok |-> TRUE,
   value |-> [i \in 1..Len(results) |-> IF i \in rejecting THEN <<>> ELSE results[i]]]

\* Promise.all over the per-store promises: rejects when any of them rejects.
PromiseAll(results, rejecting) ==
  [ok |-> rejecting = {}, value |-> results]

\* faulty variant: findRelevantArtifacts is called on every store, and the
\* call of a missing method throws
getPerceptionResultsUnguarded(stores, context, rejecting) ==
  LET all == PromiseAll(
        [i \in 1..Len(stores) |->
           IF ~stores[i].find THEN <<>>
           ELSE findRelevantArtifacts(stores[i], context)],
        rejecting \cup {i \in 1..Len(stores) : ~stores[i].find})
  IN [ok |-> all.ok, value |-> flat(all.value)]

\* faulty variant: the results of the store registered last come first
getPerceptionResultsLastFirst(stores, context, rejecting) ==
  LET all == PromiseAll(
        [i \in 1..Len(stores) |->
           IF ~stores[i].find THEN <<>>
           ELSE findRelevantArtifacts(stores[i], context)],
        rejecting)
      Reverse(seq) == [i \in 1..Len(seq) |-> seq[Len(seq) + 1 - i]]
  IN [ok |-> all.ok, value |-> flat(Reverse(all.value))]

getPerceptionResults(stores, context, rejecting) ==
  LET all == PromiseAll(
        [i \in 1..Len(stores) |->
           IF ~stores[i].find THEN <<>>
           ELSE findRelevantArtifacts(stores[i], context)],
        rejecting)
  IN [ok |-> all.ok, value |-> flat(all.value)]

\* faulty variant: an image id that several stores list is returned once
predictPerceptionTargetsDeduped(stores, request, rejecting) ==
  LET all == PromiseAll(
        [i \in 1..Len(stores) |->
           IF ~stores[i].detect THEN <<>>
           ELSE getDetectableImages(stores[i], request)],
        rejecting)
  IN [ok |-> all.ok, value |-> NewSet(flat(all.value))]

predictPerceptionTargets(stores, request, rejecting) ==
  LET all == PromiseAll(
        [i \in 1..Len(stores) |->
           IF ~stores[i].detect THEN <<>>
           ELSE getDetectableImages(stores[i], request)],
        rejecting)
  IN [ok |-> all.ok, value |-> flat(all.value)]

\* The stores a query reaches: those that have the capability.
Finders(stores) == {i \in 1..Len(stores) : stores[i].find}
Detectors(stores) == {i \in 1..Len(stores) : stores[i].detect}

EmptyState == [markers |-> <<>>, geo |-> NoGeo, images |-> <<>>]

\* A direct call of a dealer method: the stores that have the method are
\* called in registration order and answer in any order.
NoDeal ==
  [pc |-> "none", method |-> "find", state |-> EmptyState, rejecting |-> {},
   arrived |-> <<>>, value |-> <<>>]

Capable(stores, method) ==
  IF method = "find" THEN Finders(stores) ELSE Detectors(stores)

DealStart(method, state, rejecting) ==
  /\ dealt.pc # "pending"
  /\ rejecting \subseteq Capable(artstores, method)
  /\ dealt' = [NoDeal EXCEPT !.pc = "pending", !.method = method,
                             !.state = state, !.rejecting = rejecting]

\* the promise of store i settles
DealArrive(i) ==
  /\ dealt.pc = "pending"
  /\ i \in Capable(artstores, dealt.method) \ Elems(dealt.arrived)
  /\ dealt' = [dealt EXCEPT !.arrived = Append(@, i)]

\* Promise.all settles: when every promise is fulfilled, or one is rejected
DealSettle ==
  /\ dealt.pc = "pending"
  /\ \/ Elems(dealt.arrived) = Capable(artstores, dealt.method)
     \/ Elems(dealt.arrived) \cap dealt.rejecting # {}
  /\ LET res == IF dealt.method = "find"
                THEN getPerceptionResults(artstores, dealt.state, dealt.rejecting)
                ELSE predictPerceptionTargets(artstores, dealt.state, dealt.rejecting)
     IN dealt' = [dealt EXCEPT !.pc = IF res.ok THEN "fulfilled" ELSE "rejected",
                               !.value = IF res.ok THEN res.value ELSE <<>>]

-----------------------------------------------------------------------------
(* MeaningMaker.updatePerceptionState, first segment (lines 140-173) *)

\* for (const marker of request.markers || [])
RECURSIVE MarkerLoop(_, _, _, _)
MarkerLoop(markers, map, newTargets, now) ==
  IF markers = <<>> THEN [map |-> map, newTargets |-> newTargets]
  ELSE LET marker == Head(markers)
           markerId == generateMarkerId(marker)
       IN MarkerLoop(Tail(markers),
                     MapSet(map, markerId, marker, now),
                     IF ~MapHas(map, markerId)
                       THEN Append(newTargets, marker) ELSE newTargets,
                     now)

\* The map the image loop asks whether an image was seen before.
ImageSeenMap(markerMap, imageMap) == markerMap

\* for (const image of request.images || [])
RECURSIVE ImageLoop(_, _, _, _, _)
ImageLoop(images, markerMap, imageMap, newTargets, now) ==
  IF images = <<>> THEN [map |-> imageMap, newTargets |-> newTargets]
  ELSE LET image == Head(images)
           imageId == image.id
       IN ImageLoop(Tail(images), markerMap,
                    MapSet(imageMap, imageId, image, now),
                    IF ~MapHas(ImageSeenMap(markerMap, imageMap), imageId)
                      THEN Append(newTargets, image) ELSE newTargets,
                    now)

\* faulty variant: an entry as old as the window expires
ExpiredAtWindow(now, timestamp, buffer) == now - timestamp >= buffer

\* faulty variant: a target missing from one tick expires at once
ExpiredNoDebounce(now, timestamp, buffer) == now - timestamp > 0

\* faulty variant: the sweep uses the default window, not the configured one
ExpiredDefaultWindow(now, timestamp, buffer) == now - timestamp > MaxBuffer

\* if (now - timestamp > this._lastSeenTimeBuffer) delete
Expired(now, timestamp, buffer) == now - timestamp > buffer

Sweep(map, now, buffer) ==
  LET Keep(e) == ~Expired(now, e.timestamp, buffer)
  IN SelectSeq(map, Keep)

\* faulty variant: every current result is reported found
FoundWithoutFilter(unique, prev) == unique

\* found / lost of the diff (lines 189-190)
Found(unique, prev) ==
  LET New(a) == ~SetHas(prev, a) IN SelectSeq(unique, New)

\* faulty variant: the previous set is not replaced
StaleResults(unique, prev) == prev

\* faulty variant: the current results are added to the previous set
UpdatedResultsAdded(unique, prev) == SetAddAll(prev, unique)

\* this.prevPerceptionResults = uniqueNearbyResults (line 193)
UpdatedResults(unique, prev) == unique

\* faulty variant: the lost line is a copy of the found line
LostCopyOfFound(unique, prev) ==
  LET New(a) == ~SetHas(prev, a) IN SelectSeq(unique, New)

Lost(unique, prev) ==
  LET Gone(a) == ~SetHas(unique, a) IN SelectSeq(prev, Gone)

-----------------------------------------------------------------------------
(* Side loading: a marker whose value is a URL has the page behind the URL  *)
(* indexed into the default store (the store registered first).             *)

\* faulty variant: a list of origins is not remapped and counts as true
shouldLoadListNotRemapped(p, url) ==
  CASE p.kind = "omitted" -> url.origin = PageOrigin
    [] p.kind = "list" -> TRUE
    [] OTHER -> url.href \in p.accepts

\* the predicate of loadArtifactsFromSupportedUrl (lines 118-127)
\* faulty variant: without a predicate nothing is loaded
shouldLoadNothingByDefault(p, url) ==
  IF p.kind = "omitted" THEN FALSE
  ELSE IF p.kind = "list" THEN \E i \in 1..Len(p.origins) : p.origins[i] = url.origin
  ELSE url.href \in p.accepts

shouldLoad(p, url) ==
  CASE p.kind = "omitted" -> url.origin = PageOrigin
    [] p.kind = "list" -> \E i \in 1..Len(p.origins) : p.origins[i] = url.origin
    [] OTHER -> url.href \in p.accepts

\* loadArtifactsFromUrl up to its await: answer from the cache, or call
\* ArtifactLoader.fromUrl (lines 100-103)
loadArtifactsFromUrl(url, cache) ==
  IF url.href \in cache THEN "cached" ELSE "fetch"

\* loadArtifactsFromSupportedUrl (lines 116-132): "none" is the return of []
loadArtifactsFromSupportedUrl(p, url, cache) ==
  IF ~shouldLoad(p, url) THEN "none" ELSE loadArtifactsFromUrl(url, cache)

\* checkMarkerIsDynamic up to its await (lines 214-219)
checkMarkerIsDynamic(marker, p, cache) ==
  LET url == NewURL(marker.value)
  IN IF ~url.ok THEN "none" ELSE loadArtifactsFromSupportedUrl(p, url, cache)

\* faulty variant: the error of a failed load leaves checkMarkerIsDynamic
SideLoadUncaught(ok) == IF ok THEN "fulfilled" ELSE "rejected"

\* how the promise of checkMarkerIsDynamic settles when its load succeeded
\* or failed: the catch swallows the error (lines 220-222)
SideLoadOutcome(ok) == "fulfilled"

\* the fetches that request.markers.map(checkMarkerIsDynamic) starts: the
\* synchronous part of every call runs before any fetch can answer
StartedLoads(owner, request, cache) ==
  LET Fetches(marker) ==
        checkMarkerIsDynamic(marker, request.shouldLoadArtifactsFrom, cache) = "fetch"
      ms == SelectSeq(request.markers, Fetches)
  IN [i \in 1..Len(ms) |-> [owner |-> owner, href |-> ms[i].value]]

\* faulty variant: the side loading is started and not awaited
SideLoadsNotAwaited(queue, owner) == TRUE

\* await Promise.all(markers.map(checkMarkerIsDynamic)) (lines 172-173)
SideLoadsSettled(queue, owner) ==
  \A i \in 1..Len(queue) : queue[i].owner # owner

\* the artifacts a page declares: one, triggered by the marker of its URL;
\* every load creates new objects
LoadedRefs == <<"D1", "D2", "D3", "D4">>

Total(count) == count[UrlA] + count[UrlB]

Count(loads) ==
  [u \in Urls |-> Cardinality({i \in 1..Len(loads) : loads[i].href = u})]

PageArtifacts(href, n) ==
  << [ref |-> LoadedRefs[n], kind |-> "marker", key |-> href] >>

-----------------------------------------------------------------------------
(* One invocation of updatePerceptionState, and the requests a caller makes *)

CallIds == {"test", "frame", "begin"}
Settled == {"none", "resolved", "rejected"}

EmptyRequest ==
  [markers |-> <<>>, geo |-> NoGeo, images |-> <<>>,
   shouldLoadArtifactsFrom |-> Omitted]

\* The locals of an invocation; queries counts its getPerceptionResults calls
\* and failedLoads the loads of its side loading that failed.
NoCall ==
  [pc |-> "none", request |-> EmptyRequest, now |-> 0,
   newTargets |-> <<>>, state |-> EmptyState, rejectFind |-> {},
   diffed |-> FALSE, found |-> <<>>, lost |-> <<>>,
   rejectDetect |-> {}, detectableImages |-> <<>>, queries |-> 0,
   failedLoads |-> 0]

RequestMarkers == { <<>>, <<MarkerX>> }
RequestImages == { <<>>, <<ImageL>> }
Requests ==
  [markers : RequestMarkers, geo : {NoGeo}, images : RequestImages,
   shouldLoadArtifactsFrom : {Omitted}]
GeoRequests ==
  [markers : RequestMarkers, geo : {NoGeo, Geo1}, images : RequestImages,
   shouldLoadArtifactsFrom : {Omitted}]

BufferValues == {0, MaxBuffer}

\* lines 140-173: read the clock, refresh the presence entries of the
\* request's targets, sweep the expired ones, start the side loading.
Invoke(c, request, dt) ==
  /\ calls[c].pc \in Settled
  /\ clock + dt <= MaxTime
  /\ LET now == clock + dt
         m == MarkerLoop(request.markers, lastSeenMarkers, <<>>, now)
         im == ImageLoop(request.images, m.map, lastSeenImages, m.newTargets, now)
         loads == StartedLoads(c, request, artifactsForUrl)
     IN /\ Total(fromUrlCalls) + Len(loads) <= MaxLoads
        /\ pending' = pending \o loads
        /\ fromUrlCalls' = [u \in Urls |-> fromUrlCalls[u] + Count(loads)[u]]
        /\ clock' = now
        /\ lastSeenMarkers' = Sweep(m.map, now, lastSeenTimeBuffer)
        /\ lastSeenImages' = Sweep(im.map, now, lastSeenTimeBuffer)
        /\ calls' = [calls EXCEPT ![c] =
             [NoCall EXCEPT !.pc = "sideload", !.request = request, !.now = now,
                            !.newTargets = im.newTargets]]
  /\ UNCHANGED <<lastSeenTimeBuffer, prevPerceptionResults, artstores,
                 artifactsForUrl, saves>>

\* faulty variant: the stores are asked about the targets of the request
RawInputState(markerMap, imageMap, request) ==
  [markers |-> request.markers, geo |-> request.geo, images |-> request.images]

\* faulty variant: the place of the request is not handed to the stores
PerceptionStateWithoutGeo(markerMap, imageMap, request) ==
  [markers |-> MapValues(markerMap),
   geo |-> NoGeo,
   images |-> MapValues(imageMap)]

\* const state: PerceptionState = { markers, geo, images } (lines 176-180)
PerceptionState(markerMap, imageMap, request) ==
  [markers |-> MapValues(markerMap),
   geo |-> request.geo,
   images |-> MapValues(imageMap)]

\* lines 175-182: after the side loading, build the state from the presence
\* entries and hand it to every store; `rejecting` are the stores whose
\* findRelevantArtifacts promise will reject.
IssueQuery(c, rejecting) ==
  /\ calls[c].pc = "sideload"
  /\ SideLoadsSettled(pending, c)
  /\ rejecting \subseteq Finders(artstores)
  /\ calls' = [calls EXCEPT
        ![c].pc = "query",
        ![c].state = PerceptionState(lastSeenMarkers, lastSeenImages,
                                     calls[c].request),
        ![c].rejectFind = rejecting,
        ![c].queries = calls[c].queries + 1]
  /\ UNCHANGED <<clock, lastSeenTimeBuffer, lastSeenMarkers, lastSeenImages,
                 prevPerceptionResults, artstores,
                 artifactsForUrl, pending, fromUrlCalls, saves>>

\* faulty variant: a rejected query empties the previous result set
QueryDoneClearsOnReject(c, rejecting) ==
  /\ calls[c].pc = "query"
  /\ LET nearbyResults ==
           getPerceptionResults(artstores, calls[c].state, calls[c].rejectFind)
         uniqueNearbyResults == NewSet(nearbyResults.value)
     IN IF ~nearbyResults.ok
        THEN /\ rejecting = {}
             /\ calls' = [calls EXCEPT ![c].pc = "rejected"]
             /\ prevPerceptionResults' = <<>>
        ELSE /\ rejecting \subseteq Detectors(artstores)
             /\ calls' = [calls EXCEPT
                   ![c].pc = "predict",
                   ![c].diffed = TRUE,
                   ![c].found = Found(uniqueNearbyResults, prevPerceptionResults),
                   ![c].lost = Lost(uniqueNearbyResults, prevPerceptionResults),
                   ![c].rejectDetect = rejecting]
             /\ prevPerceptionResults' =
                  UpdatedResults(uniqueNearbyResults, prevPerceptionResults)
  /\ UNCHANGED <<clock, lastSeenTimeBuffer, lastSeenMarkers, lastSeenImages,
                 artstores, artifactsForUrl, pending, fromUrlCalls, saves>>

\* lines 182-199: the store results arrive; diff against the previous set,
\* replace it, and ask every store for its detectable images (`rejecting`
\* are the stores whose getDetectableImages promise will reject).
QueryDone(c, rejecting) ==
  /\ calls[c].pc = "query"
  /\ LET nearbyResults ==
           getPerceptionResults(artstores, calls[c].state, calls[c].rejectFind)
         uniqueNearbyResults == NewSet(nearbyResults.value)
     IN IF ~nearbyResults.ok
        THEN /\ rejecting = {}
             /\ calls' = [calls EXCEPT ![c].pc = "rejected"]
             /\ UNCHANGED prevPerceptionResults
        ELSE /\ rejecting \subseteq Detectors(artstores)
             /\ calls' = [calls EXCEPT
                   ![c].pc = "predict",
                   ![c].diffed = TRUE,
                   ![c].found = Found(uniqueNearbyResults, prevPerceptionResults),
                   ![c].lost = Lost(uniqueNearbyResults, prevPerceptionResults),
                   ![c].rejectDetect = rejecting]
             /\ prevPerceptionResults' =
                  UpdatedResults(uniqueNearbyResults, prevPerceptionResults)
  /\ UNCHANGED <<clock, lastSeenTimeBuffer, lastSeenMarkers, lastSeenImages,
                 artstores, artifactsForUrl, pending, fromUrlCalls, saves>>

\* faulty variant: the stores' catalogs are asked with the state that was
\* built from the presence entries
PredictDoneWithState(c) ==
  /\ calls[c].pc = "predict"
  /\ LET targets ==
           predictPerceptionTargets(artstores, calls[c].state, calls[c].rejectDetect)
     IN IF targets.ok
        THEN calls' = [calls EXCEPT ![c].pc = "resolved",
                                    ![c].detectableImages = targets.value]
        ELSE calls' = [calls EXCEPT ![c].pc = "rejected"]
  /\ UNCHANGED <<clock, lastSeenTimeBuffer, lastSeenMarkers, lastSeenImages,
                 prevPerceptionResults, artstores,
                 artifactsForUrl, pending, fromUrlCalls, saves>>

\* lines 199-202: the catalogs arrive and the response is returned.
PredictDone(c) ==
  /\ calls[c].pc = "predict"
  /\ LET targets ==
           predictPerceptionTargets(artstores, calls[c].request, calls[c].rejectDetect)
     IN IF targets.ok
        THEN calls' = [calls EXCEPT ![c].pc = "resolved",
                                    ![c].detectableImages = targets.value]
        ELSE calls' = [calls EXCEPT ![c].pc = "rejected"]
  /\ UNCHANGED <<clock, lastSeenTimeBuffer, lastSeenMarkers, lastSeenImages,
                 prevPerceptionResults, artstores,
                 artifactsForUrl, pending, fromUrlCalls, saves>>

\* set lastSeenTimeBuffer(ms), used as the tests do: before the first tick.
SetLastSeenTimeBuffer(ms) ==
  /\ \A c \in CallIds : calls[c].pc = "none"
  /\ ms # lastSeenTimeBuffer
  /\ lastSeenTimeBuffer' = ms
  /\ UNCHANGED <<clock, lastSeenMarkers, lastSeenImages, prevPerceptionResults,
                 artstores, calls, artifactsForUrl, pending, fromUrlCalls, saves>>

\* faulty variant: the URL of a failed load is recorded in the cache
LoadDoneCachesFailure(i, ok) ==
  /\ i \in 1..Len(pending)
  /\ LET load == pending[i]
         owner == load.owner
     IN /\ pending' = [j \in 1..(Len(pending) - 1) |->
                         IF j < i THEN pending[j] ELSE pending[j + 1]]
        /\ artifactsForUrl' = artifactsForUrl \cup {load.href}
        /\ IF ok
           THEN /\ artstores' = [artstores EXCEPT ![1].entries =
                                   @ \o PageArtifacts(load.href, Total(saves) + 1)]
                /\ saves' = [saves EXCEPT ![load.href] = @ + 1]
           ELSE UNCHANGED <<artstores, saves>>
        /\ calls' = IF owner \notin CallIds THEN calls
                    ELSE [calls EXCEPT
                           ![owner].failedLoads = IF ok THEN @ ELSE @ + 1]
  /\ UNCHANGED <<clock, lastSeenTimeBuffer, lastSeenMarkers, lastSeenImages,
                 prevPerceptionResults, fromUrlCalls>>

\* a fetch of ArtifactLoader.fromUrl answers: loadArtifactsFromUrl saves the
\* artifacts and fills the cache (lines 103-105), or fromUrl throws
LoadDone(i, ok) ==
  /\ i \in 1..Len(pending)
  /\ LET load == pending[i]
         owner == load.owner
     IN /\ pending' = [j \in 1..(Len(pending) - 1) |->
                         IF j < i THEN pending[j] ELSE pending[j + 1]]
        /\ IF ok
           THEN /\ artstores' = [artstores EXCEPT ![1].entries =
                                   @ \o PageArtifacts(load.href, Total(saves) + 1)]
                /\ artifactsForUrl' = artifactsForUrl \cup {load.href}
                /\ saves' = [saves EXCEPT ![load.href] = @ + 1]
           ELSE UNCHANGED <<artstores, artifactsForUrl, saves>>
        /\ calls' = IF owner \notin CallIds THEN calls
                    ELSE [calls EXCEPT
                           ![owner].failedLoads = IF ok THEN @ ELSE @ + 1,
                           ![owner].pc =
                              IF /\ SideLoadOutcome(ok) = "rejected"
                                 /\ calls[owner].pc = "sideload"
                              THEN "rejected" ELSE @]
  /\ UNCHANGED <<clock, lastSeenTimeBuffer, lastSeenMarkers, lastSeenImages,
                 prevPerceptionResults, fromUrlCalls>>

\* how the promise of a direct loadArtifactsFromUrl settles: the error of
\* fromUrl leaves the method at its await (line 103)
LoadOutcome(ok) == IF ok THEN "fulfilled" ELSE "rejected"

\* a direct call of loadArtifactsFromUrl(url), up to its await
ApiLoad(url) ==
  /\ IF loadArtifactsFromUrl(url, artifactsForUrl) = "fetch"
     THEN /\ Total(fromUrlCalls) < MaxLoads
          /\ pending' = Append(pending, [owner |-> "api", href |-> url.href])
          /\ fromUrlCalls' = [fromUrlCalls EXCEPT ![url.href] = @ + 1]
     ELSE UNCHANGED <<pending, fromUrlCalls>>
  /\ UNCHANGED <<clock, lastSeenTimeBuffer, lastSeenMarkers, lastSeenImages,
                 prevPerceptionResults, artstores, calls, artifactsForUrl, saves>>

\* a direct call of loadArtifactsFromSupportedUrl(url, p), up to its await
ApiLoadSupported(url, p) ==
  /\ IF loadArtifactsFromSupportedUrl(p, url, artifactsForUrl) = "fetch"
     THEN /\ Total(fromUrlCalls) < MaxLoads
          /\ pending' = Append(pending, [owner |-> "api", href |-> url.href])
          /\ fromUrlCalls' = [fromUrlCalls EXCEPT ![url.href] = @ + 1]
     ELSE UNCHANGED <<pending, fromUrlCalls>>
  /\ UNCHANGED <<clock, lastSeenTimeBuffer, lastSeenMarkers, lastSeenImages,
                 prevPerceptionResults, artstores, calls, artifactsForUrl, saves>>

-----------------------------------------------------------------------------
(* History variables: what the properties need to remember of a behaviour. *)
(* They are written here and read by no action of the program.              *)

\* lastObserved: the clock reading of the last request that listed a target
Observe(seen, request, now) ==
  [t \in DOMAIN seen |->
     IF t \in Elems(request.markers) \cup Elems(request.images)
     THEN now ELSE seen[t]]

\* shown: the caller applies the found and lost of a response it receives
Apply(set, call) ==
  IF call.pc = "resolved" THEN (set \cup Elems(call.found)) \ Elems(call.lost)
  ELSE set

\* rel: how an invocation relates to the one the caller made before it
NoTick == [pc |-> "none", state |-> EmptyState, diffed |-> FALSE]

TickOf(call) == [pc |-> call.pc, state |-> call.state, diffed |-> call.diffed]

NoRel == [repeat |-> FALSE, later |-> FALSE, before |-> NoTick,
          unchanged |-> FALSE, geoChanged |-> FALSE]

RelInvoke(old, request, now) ==
  [repeat |-> old.pc # "none" /\ old.request = request /\ old.now = now,
   later |-> now > old.now,
   before |-> TickOf(old),
   unchanged |-> FALSE,
   geoChanged |-> FALSE]

NoGeofencedArtifacts(stores) ==
  \A i \in 1..Len(stores) : \A j \in 1..Len(stores[i].entries) :
    stores[i].entries[j].kind # "geo"

\* the stores are handed the markers and images the invocation before handed
\* them, that one got its results, and no store answers by place
RelQuery(r, state, stores) ==
  [r EXCEPT !.before = NoTick,
            !.geoChanged = (r.before.state.geo # state.geo),
            !.unchanged = /\ r.before.diffed
                          /\ Elems(r.before.state.markers) = Elems(state.markers)
                          /\ Elems(r.before.state.images) = Elems(state.images)
                          /\ \/ r.before.state.geo = state.geo
                             \/ NoGeofencedArtifacts(stores)]

\* life: the restarts so far, the markers that had a presence entry at the
\* last stop(), those that had one at the stop() before the last start(),
\* those observed since that start(), and those that the tick of the
\* captureFrame handler is the first since then to observe
NoLife ==
  [restarts |-> 0, atStop |-> {}, before |-> {}, observed |-> {}, first |-> {}]

\* notice: the targets whose presence entry was created and that no
\* response received so far lists in newTargets, and those among them whose
\* entry has expired since
NoNotice == [unreported |-> {}, dropped |-> {}]

\* gate: the arguments and the outcome of a direct call of
\* loadArtifactsFromSupportedUrl
NoGate == [p |-> Omitted, url |-> NewURL(<<>>), step |-> "never"]

\* scenario: "observe the target, observe it again, observe nothing" advances
\* with every response that follows it and is left otherwise
ScenarioTarget(request) ==
  IF request.markers = <<MarkerX>> /\ request.images = <<>> THEN "marker"
  ELSE IF request.markers = <<>> /\ request.images = <<ImageL>> THEN "image"
  ELSE IF request.markers = <<>> /\ request.images = <<>> THEN "nothing"
  ELSE "other"

ScenarioNext(scen, call) ==
  LET t == ScenarioTarget(call.request)
  IN IF call.pc \notin {"resolved", "rejected"} THEN scen
     ELSE IF call.pc = "rejected" THEN [kind |-> "off", step |-> 0]
     ELSE IF scen.kind = "start" /\ t \in {"marker", "image"}
       THEN [kind |-> t, step |-> 1]
     ELSE IF scen.step = 1 /\ t = scen.kind THEN [kind |-> t, step |-> 2]
     ELSE IF scen.step = 2 /\ t = "nothing" THEN [kind |-> scen.kind, step |-> 3]
     ELSE [kind |-> "off", step |-> 0]

-----------------------------------------------------------------------------
(* The MeaningMaker driven by a caller that awaits every tick (the tests); *)
(* the stores may reject.                                                   *)

InitMM ==
  /\ clock = 0
  /\ lastSeenTimeBuffer = MaxBuffer
  /\ lastSeenMarkers = <<>>
  /\ lastSeenImages = <<>>
  /\ prevPerceptionResults = <<>>
  /\ artstores \in StoreConfigs
  /\ calls = [c \in CallIds |-> NoCall]
  /\ artifactsForUrl = {}
  /\ pending = <<>>
  /\ fromUrlCalls = [u \in Urls |-> 0]
  /\ saves = [u \in Urls |-> 0]
  /\ gate = NoGate
  /\ dealt = NoDeal
  /\ life = NoLife
  /\ notice = NoNotice
  /\ lastObserved = [t \in AllMarkers \cup AllImages |-> -1]
  /\ shown = {}
  /\ scenario = [kind |-> "start", step |-> 0]
  /\ rel = NoRel

\* const { maxCards = 1 } of window.PerceptionToolkit.config
DefaultMaxCards == 1

\* the page as the toolkit finds it when no card container is configured:
\* the events of the last processed frame, the children of the container
NoUi ==
  [cardContainer |-> FALSE, acknowledgeUnknownItems |-> TRUE,
   maxCards |-> DefaultMaxCards, children |-> <<>>,
   markerDetect |-> <<>>, perceivedResults |-> <<>>]

\* const START_INDEX = 1000 of the planar image worker
START_INDEX == 1000

\* the planar image detector module before any of its functions is called:
\* no Detector, the worker's counter at START_INDEX, no message in flight
NoDetector ==
  [created |-> FALSE, targets |-> <<>>, toWorker |-> <<>>, toPage |-> <<>>,
   addCount |-> START_INDEX, live |-> <<>>, ops |-> <<>>, clearPc |-> "none",
   restartedOver |-> <<>>, afterReset |-> <<>>, expected |-> {},
   removed |-> {}, started |-> 0]

\* no <onboarding-card> in the document, start() not called
NoCard ==
  [present |-> FALSE, itemInternal |-> 0, itemMax |-> 0, mode |-> "scroll",
   nexts |-> <<>>, finished |-> 0, startPc |-> "none", clicks |-> 0,
   done |-> {}]

InitCapture ==
  /\ isProcessingFrame = FALSE
  /\ captureActive = FALSE
  /\ beginPc = "none"
  /\ framePc = "idle"
  /\ frameParity = 0

InitToolkitIdle ==
  /\ InitCapture
  /\ ui = NoUi
  /\ det = NoDetector
  /\ card = NoCard

Init == InitMM /\ InitToolkitIdle

TestInvoke ==
  \E request \in Requests, dt \in 0..MaxStep :
    /\ Invoke("test", request, dt)
    /\ lastObserved' = Observe(lastObserved, request, clock + dt)
    /\ rel' = RelInvoke(calls["test"], request, clock + dt)
    /\ UNCHANGED <<shown, scenario, gate, dealt, life, notice, tkVars>>

TestIssueQuery ==
  \E rejecting \in SUBSET (1..Len(artstores)) :
    /\ IssueQuery("test", rejecting)
    /\ rel' = RelQuery(rel, calls'["test"].state, artstores)
    /\ UNCHANGED <<lastObserved, shown, scenario, gate, dealt, life, notice, tkVars>>

TestQueryDone ==
  \E rejecting \in SUBSET (1..Len(artstores)) :
    /\ QueryDone("test", rejecting)
    /\ UNCHANGED <<histVars, tkVars>>

TestPredictDone ==
  /\ PredictDone("test")
  /\ shown' = Apply(shown, calls'["test"])
  /\ UNCHANGED <<lastObserved, scenario, rel, gate, dealt, life, notice, tkVars>>

TestSetBuffer ==
  \E ms \in BufferValues :
    SetLastSeenTimeBuffer(ms) /\ UNCHANGED <<histVars, tkVars>>

Next ==
  \/ TestInvoke
  \/ TestIssueQuery
  \/ TestQueryDone
  \/ TestPredictDone
  \/ TestSetBuffer

Spec == Init /\ [][Next]_vars

-----------------------------------------------------------------------------
(* The same caller, followed along the scenario of the tests: observe a     *)
(* target, observe it again, observe nothing.                               *)

ScenInvoke ==
  \E request \in Requests, dt \in 0..MaxStep :
    /\ Invoke("test", request, dt)
    /\ rel' = RelInvoke(calls["test"], request, clock + dt)
    /\ UNCHANGED <<lastObserved, shown, scenario, gate, dealt, life, notice, tkVars>>

ScenQueryDone ==
  \E rejecting \in SUBSET (1..Len(artstores)) :
    /\ QueryDone("test", rejecting)
    /\ scenario' = ScenarioNext(scenario, calls'["test"])
    /\ UNCHANGED <<lastObserved, shown, rel, gate, dealt, life, notice, tkVars>>

ScenPredictDone ==
  /\ PredictDone("test")
  /\ scenario' = ScenarioNext(scenario, calls'["test"])
  /\ UNCHANGED <<lastObserved, shown, rel, gate, dealt, life, notice, tkVars>>

NextScenario ==
  \/ ScenInvoke
  \/ TestIssueQuery
  \/ ScenQueryDone
  \/ ScenPredictDone
  \/ TestSetBuffer

SpecScenario == Init /\ [][NextScenario]_vars

-----------------------------------------------------------------------------
(* The same caller, with a record of the targets it was told of *)

\* the targets that have a presence entry in the maps
WithEntry(markerMap, imageMap) ==
  {t \in AllMarkers : MapHas(markerMap, generateMarkerId(t))}
    \cup {t \in AllImages : MapHas(imageMap, t.id)}

NtInvoke ==
  \E request \in Requests, dt \in {0, MaxStep} :
    /\ Invoke("test", request, dt)
    /\ LET had == WithEntry(lastSeenMarkers, lastSeenImages)
           has == WithEntry(lastSeenMarkers', lastSeenImages')
           created == (Elems(request.markers) \cup Elems(request.images)) \ had
       IN notice' = [unreported |-> (notice.unreported \cap has) \cup created,
                     dropped |-> notice.dropped \cup (notice.unreported \ has)]
    /\ UNCHANGED <<lastObserved, shown, scenario, rel, gate, dealt, life, tkVars>>

NtPredictDone ==
  /\ PredictDone("test")
  /\ notice' = [notice EXCEPT !.unreported =
                  IF calls'["test"].pc = "resolved"
                  THEN @ \ Elems(calls'["test"].newTargets) ELSE @]
  /\ UNCHANGED <<lastObserved, shown, scenario, rel, gate, dealt, life, tkVars>>

NextNotice ==
  \/ NtInvoke
  \/ TestIssueQuery
  \/ TestQueryDone
  \/ NtPredictDone
  \/ TestSetBuffer

SpecNotice == Init /\ [][NextNotice]_vars

-----------------------------------------------------------------------------
(* The same caller with requests that carry a place *)

GeoInvoke ==
  \E request \in GeoRequests, dt \in 0..MaxStep :
    /\ Invoke("test", request, dt)
    /\ rel' = RelInvoke(calls["test"], request, clock + dt)
    /\ UNCHANGED <<lastObserved, shown, scenario, gate, dealt, life, notice, tkVars>>

GeoPredictDone ==
  /\ PredictDone("test")
  /\ UNCHANGED <<histVars, tkVars>>

NextGeo ==
  \/ GeoInvoke
  \/ TestIssueQuery
  \/ TestQueryDone
  \/ GeoPredictDone
  \/ TestSetBuffer

SpecGeo == Init /\ [][NextGeo]_vars

-----------------------------------------------------------------------------
(* A caller that awaits every tick and observes markers whose value is a    *)
(* URL; the fetches answer, or fail, in any order.                          *)

SideLoadMarkers ==
  { <<>>, <<MarkerX>>, <<MarkerU>>, <<MarkerU, MarkerU>>, <<MarkerB>> }

SideLoadRequests ==
  [markers : SideLoadMarkers, geo : {NoGeo}, images : {<<>>},
   shouldLoadArtifactsFrom : {Omitted}]

SlInvoke ==
  \E request \in SideLoadRequests, dt \in {0, MaxStep} :
    /\ Invoke("test", request, dt)
    /\ UNCHANGED <<histVars, tkVars>>

SlLoadDone ==
  \E i \in 1..Len(pending), ok \in BOOLEAN :
    /\ LoadDone(i, ok)
    /\ UNCHANGED <<histVars, tkVars>>

SlIssueQuery ==
  \E rejecting \in SUBSET (1..Len(artstores)) :
    /\ IssueQuery("test", rejecting)
    /\ UNCHANGED <<histVars, tkVars>>

NextSideLoad ==
  \/ SlInvoke
  \/ SlLoadDone
  \/ SlIssueQuery
  \/ TestQueryDone
  \/ GeoPredictDone

\* the MeaningMaker as constructed: the default store alone
InitSideLoad == Init /\ artstores = <<LocalStore>>

SpecSideLoad == InitSideLoad /\ [][NextSideLoad]_vars

-----------------------------------------------------------------------------
(* A caller that awaits every tick and observes markers whose type and      *)
(* value are any strings, among them strings holding the separator's        *)
(* character.                                                               *)

IdTypes == { <<"a">>, <<"a", "_">> }
IdValues == { <<"b">>, <<"_", "b">> }
IdMarkers == [type : IdTypes, value : IdValues]

IdRequests ==
  [markers : {<<>>} \cup {<<m>> : m \in IdMarkers}
               \cup {<<m1, m2>> : m1, m2 \in IdMarkers},
   geo : {NoGeo}, images : {<<>>}, shouldLoadArtifactsFrom : {Omitted}]

IdInvoke ==
  \E request \in IdRequests, dt \in {0, MaxStep} :
    /\ Invoke("test", request, dt)
    /\ UNCHANGED <<histVars, tkVars>>

NextMarkerId ==
  \/ IdInvoke
  \/ SlIssueQuery
  \/ TestQueryDone
  \/ GeoPredictDone

SpecMarkerId == InitSideLoad /\ [][NextMarkerId]_vars

-----------------------------------------------------------------------------
(* Direct calls of loadArtifactsFromSupportedUrl, as the tests make them *)

Predicates ==
  { Omitted,
    OriginList(<<>>), OriginList(<<PageOrigin>>), OriginList(<<OtherOrigin>>),
    OriginList(<<OtherOrigin, PageOrigin>>),
    Callback({}), Callback({UrlA}), Callback({UrlB}) }

GateLoad ==
  \E u \in Urls, p \in Predicates :
    /\ ApiLoadSupported(NewURL(u), p)
    /\ gate' = [p |-> p, url |-> NewURL(u),
                step |-> loadArtifactsFromSupportedUrl(p, NewURL(u), artifactsForUrl)]
    /\ UNCHANGED <<lastObserved, shown, scenario, rel, dealt, life, notice, tkVars>>

NextGate ==
  \/ GateLoad
  \/ SlLoadDone

SpecGate == Init /\ [][NextGate]_vars

-----------------------------------------------------------------------------
(* The caller of the test 'loads markers dynamically': it awaits every tick, *)
(* observes a marker whose value is a same-origin URL or nothing, and may    *)
(* set the window first.                                                    *)

DyRequests ==
  [markers : {<<>>, <<MarkerU>>}, geo : {NoGeo}, images : {<<>>},
   shouldLoadArtifactsFrom : {Omitted}]

DyInvoke ==
  \E request \in DyRequests, dt \in 0..MaxStep :
    /\ Invoke("test", request, dt)
    /\ rel' = RelInvoke(calls["test"], request, clock + dt)
    /\ UNCHANGED <<lastObserved, shown, scenario, gate, dealt, life, notice, tkVars>>

NextDynamic ==
  \/ DyInvoke
  \/ SlLoadDone
  \/ SlIssueQuery
  \/ TestQueryDone
  \/ GeoPredictDone
  \/ TestSetBuffer

SpecDynamic == InitSideLoad /\ [][NextDynamic]_vars

-----------------------------------------------------------------------------
(* Direct calls of loadArtifactsFromUrl, and ticks that observe markers     *)
(* with the same URLs; gate records the last call and how the last fetch    *)
(* settled.                                                                 *)

LdCall ==
  \E u \in Urls :
    /\ ApiLoad(NewURL(u))
    /\ gate' = [p |-> Omitted, url |-> NewURL(u),
                step |-> loadArtifactsFromUrl(NewURL(u), artifactsForUrl)]
    /\ UNCHANGED <<lastObserved, shown, scenario, rel, dealt, life, notice, tkVars>>

LdLoadDone ==
  \E i \in 1..Len(pending), ok \in BOOLEAN :
    /\ LoadDone(i, ok)
    /\ gate' = [p |-> Omitted, url |-> NewURL(pending[i].href),
                step |-> LoadOutcome(ok)]
    /\ UNCHANGED <<lastObserved, shown, scenario, rel, dealt, life, notice, tkVars>>

\* ticks that observe one marker whose value is a URL
LdRequests ==
  [markers : {<<MarkerU>>, <<MarkerB>>}, geo : {NoGeo}, images : {<<>>},
   shouldLoadArtifactsFrom : {Omitted}]

LdInvoke ==
  \E request \in LdRequests :
    /\ Invoke("test", request, 0)
    /\ UNCHANGED <<histVars, tkVars>>

NextLoad ==
  \/ LdCall
  \/ LdLoadDone
  \/ LdInvoke
  \/ SlIssueQuery
  \/ TestQueryDone
  \/ GeoPredictDone

SpecLoad == InitSideLoad /\ [][NextLoad]_vars

-----------------------------------------------------------------------------
(* The ArtifactDealer called directly, as its tests do, with any two or     *)
(* fewer stores registered.                                                 *)

StorePool == {LocalStore, CustomStore, CatalogStore, BareStore}

DealerConfigs ==
  {<<>>} \cup {<<a>> : a \in StorePool} \cup {<<a, b>> : a, b \in StorePool}

DealStates ==
  [markers : RequestMarkers, geo : {NoGeo, Geo1}, images : RequestImages]

InitDealer ==
  /\ InitToolkitIdle
  /\ clock = 0
  /\ lastSeenTimeBuffer = MaxBuffer
  /\ lastSeenMarkers = <<>>
  /\ lastSeenImages = <<>>
  /\ prevPerceptionResults = <<>>
  /\ artstores \in DealerConfigs
  /\ calls = [c \in CallIds |-> NoCall]
  /\ artifactsForUrl = {}
  /\ pending = <<>>
  /\ fromUrlCalls = [u \in Urls |-> 0]
  /\ saves = [u \in Urls |-> 0]
  /\ lastObserved = [t \in AllMarkers \cup AllImages |-> -1]
  /\ shown = {}
  /\ scenario = [kind |-> "start", step |-> 0]
  /\ rel = NoRel
  /\ gate = NoGate
  /\ dealt = NoDeal
  /\ life = NoLife
  /\ notice = NoNotice

DealerStart ==
  \E method \in {"find", "detect"}, state \in DealStates,
     rejecting \in SUBSET (1..Len(artstores)) :
    /\ DealStart(method, state, rejecting)
    /\ UNCHANGED <<mmVars, lastObserved, shown, scenario, rel, gate, life, notice, tkVars>>

DealerArrive ==
  \E i \in 1..Len(artstores) :
    /\ DealArrive(i)
    /\ UNCHANGED <<mmVars, lastObserved, shown, scenario, rel, gate, life, notice, tkVars>>

DealerSettle ==
  /\ DealSettle
  /\ UNCHANGED <<mmVars, lastObserved, shown, scenario, rel, gate, life, notice, tkVars>>

NextDealer ==
  \/ DealerStart
  \/ DealerArrive
  \/ DealerSettle

SpecDealer == InitDealer /\ [][NextDealer]_vars

-----------------------------------------------------------------------------
(* PerceptionToolkit: beginDetection and the captureFrame handler drive the  *)
(* MeaningMaker.  Every handler is cut at its awaits; the camera is granted. *)

\* detectorsToUse = { barcode: true, image: false }; geo is {}
FrameRequests ==
  [markers : RequestMarkers, images : {<<>>}, geo : {NoGeo},
   shouldLoadArtifactsFrom : {Omitted}]

\* the time between two reads of performance.now(): none, or the longest
FrameSteps == {0, MaxStep}

\* beginDetection up to capture.start(stream) in initializeStreamCapture
BeginStart ==
  /\ beginPc = "none"
  /\ beginPc' = "startup"
  /\ captureActive' = TRUE
  /\ UNCHANGED <<mmVars, histVars, isProcessingFrame, framePc, frameParity, pageVars>>

\* startupDetections are in; beginDetection calls updatePerceptionState({})
BeginTick ==
  \E dt \in FrameSteps :
    /\ beginPc = "startup"
    /\ Invoke("begin", EmptyRequest, dt)
    /\ beginPc' = "tick"
    /\ UNCHANGED <<histVars, isProcessingFrame, captureActive, framePc, frameParity, pageVars>>

\* beginDetection after its tick: prepareForNextFrame restarts the capture;
\* a rejection is caught and logged
BeginFinish ==
  /\ beginPc = "tick"
  /\ calls["begin"].pc \in {"resolved", "rejected"}
  /\ beginPc' = "done"
  /\ captureActive' = IF calls["begin"].pc = "resolved" THEN TRUE
                      ELSE captureActive
  /\ UNCHANGED <<mmVars, histVars, isProcessingFrame, framePc, frameParity, pageVars>>

\* onCaptureFrame from the event to the await of the detectors: a frame that
\* arrives under the lock is dropped
CaptureFrame ==
  /\ captureActive
  /\ IF isProcessingFrame
       THEN UNCHANGED <<isProcessingFrame, framePc>>
       ELSE /\ isProcessingFrame' = TRUE
            /\ framePc' = "detect"
  /\ frameParity' = 1 - frameParity
  /\ UNCHANGED <<mmVars, histVars, captureActive, beginPc, pageVars>>

\* onCaptureFrame: the detectors are in; updatePerceptionState is called
FrameTick ==
  \E request \in FrameRequests, dt \in FrameSteps :
    /\ framePc = "detect"
    /\ Invoke("frame", request, dt)
    /\ framePc' = "tick"
    /\ UNCHANGED <<histVars, isProcessingFrame, captureActive, beginPc, frameParity, pageVars>>

\* onCaptureFrame after its tick resolved, to "Unlock!"
FrameFinish ==
  /\ framePc = "tick"
  /\ calls["frame"].pc = "resolved"
  /\ isProcessingFrame' = FALSE
  /\ framePc' = "idle"
  /\ UNCHANGED <<mmVars, histVars, captureActive, beginPc, frameParity, pageVars>>

\* onCaptureFrame after its tick rejected: the handler's promise rejects at
\* the await and the rest of the handler does not run
FrameAbort ==
  /\ framePc = "tick"
  /\ calls["frame"].pc = "rejected"
  /\ framePc' = "failed"
  /\ UNCHANGED <<mmVars, histVars, isProcessingFrame, captureActive, beginPc, frameParity, pageVars>>

\* stop(): the capture is stopped
Stop ==
  /\ captureActive
  /\ captureActive' = FALSE
  /\ UNCHANGED <<mmVars, histVars, isProcessingFrame, beginPc, framePc, frameParity, pageVars>>

ToolkitCalls == {"frame", "begin"}

TkIssueQuery ==
  \E c \in ToolkitCalls, rejecting \in SUBSET (1..Len(artstores)) :
    /\ IssueQuery(c, rejecting)
    /\ UNCHANGED <<histVars, tkVars>>

TkQueryDone ==
  \E c \in ToolkitCalls, rejecting \in SUBSET (1..Len(artstores)) :
    /\ QueryDone(c, rejecting)
    /\ UNCHANGED <<histVars, tkVars>>

TkPredictDone ==
  \E c \in ToolkitCalls :
    /\ PredictDone(c)
    /\ UNCHANGED <<histVars, tkVars>>

NextToolkit ==
  \/ BeginStart
  \/ BeginTick
  \/ BeginFinish
  \/ CaptureFrame
  \/ FrameTick
  \/ FrameFinish
  \/ FrameAbort
  \/ Stop
  \/ TkIssueQuery
  \/ TkQueryDone
  \/ TkPredictDone

\* a suspended handler is resumed when what it awaits settles
ToolkitFairness ==
  /\ WF_vars(TkIssueQuery)
  /\ WF_vars(TkQueryDone)
  /\ WF_vars(TkPredictDone)
  /\ WF_vars(FrameTick)
  /\ WF_vars(FrameFinish)
  /\ WF_vars(FrameAbort)
  /\ WF_vars(BeginTick)
  /\ WF_vars(BeginFinish)

SpecToolkit == Init /\ [][NextToolkit]_vars /\ ToolkitFairness

-----------------------------------------------------------------------------
(* PerceptionToolkit stopped and started again: stop() stops the capture,    *)
(* start() runs MeaningMaker.init() and beginDetection once more.  No store  *)
(* and no artifact source is configured.                                    *)

DocumentUrl == <<"h", ":", "a", "/", "p">>

\* the artifacts artloader.fromElement(document) extracts, parsed anew by
\* the k-th start() after the first
RestartRefs == << <<"A2", "B2">>, <<"A3", "B3">> >>

DocumentArtifacts(k) ==
  << [ref |-> RestartRefs[k][1], kind |-> "marker", key |-> <<"X">>],
     [ref |-> RestartRefs[k][2], kind |-> "image", key |-> <<"L">>] >>

\* MeaningMaker.init (lines 71-75)
init(k) ==
  /\ artifactsForUrl' = artifactsForUrl \cup {DocumentUrl}
  /\ artstores' = [artstores EXCEPT ![1].entries = @ \o DocumentArtifacts(k)]

\* start() after a stop(), up to capture.start(stream) in beginDetection
Start ==
  /\ ~captureActive
  /\ beginPc = "done"
  /\ life.restarts < MaxRestarts
  /\ init(life.restarts + 1)
  /\ beginPc' = "startup"
  /\ captureActive' = TRUE
  /\ life' = [life EXCEPT !.restarts = @ + 1, !.before = life.atStop,
                          !.observed = {}, !.first = {}]
  /\ UNCHANGED <<clock, lastSeenTimeBuffer, lastSeenMarkers, lastSeenImages,
                 prevPerceptionResults, calls, pending, fromUrlCalls, saves,
                 lastObserved, shown, scenario, rel, gate, dealt, notice,
                 isProcessingFrame, framePc, frameParity, pageVars>>

\* stop(), lines 764-780
RsStop ==
  /\ captureActive
  /\ captureActive' = FALSE
  /\ life' = [life EXCEPT !.atStop = Elems(MapValues(lastSeenMarkers))]
  /\ UNCHANGED <<mmVars, lastObserved, shown, scenario, rel, gate, dealt, notice,
                 isProcessingFrame, beginPc, framePc, frameParity, pageVars>>

RsFrameTick ==
  \E request \in FrameRequests, dt \in FrameSteps :
    /\ framePc = "detect"
    /\ Invoke("frame", request, dt)
    /\ framePc' = "tick"
    /\ life' = [life EXCEPT !.first = Elems(request.markers) \ life.observed,
                            !.observed = @ \cup Elems(request.markers)]
    /\ UNCHANGED <<lastObserved, shown, scenario, rel, gate, dealt, notice,
                   isProcessingFrame, captureActive, beginPc, frameParity, pageVars>>

NextRestart ==
  \/ BeginStart
  \/ BeginTick
  \/ BeginFinish
  \/ CaptureFrame
  \/ RsFrameTick
  \/ FrameFinish
  \/ FrameAbort
  \/ RsStop
  \/ Start
  \/ TkIssueQuery
  \/ TkQueryDone
  \/ TkPredictDone

InitRestart ==
  /\ InitToolkitIdle
  /\ clock = 0
  /\ lastSeenTimeBuffer = MaxBuffer
  /\ lastSeenMarkers = <<>>
  /\ lastSeenImages = <<>>
  /\ prevPerceptionResults = <<>>
  /\ artstores = <<LocalStore>>
  /\ calls = [c \in CallIds |-> NoCall]
  /\ artifactsForUrl = {DocumentUrl}
  /\ pending = <<>>
  /\ fromUrlCalls = [u \in Urls |-> 0]
  /\ saves = [u \in Urls |-> 0]
  /\ lastObserved = [t \in AllMarkers \cup AllImages |-> -1]
  /\ shown = {}
  /\ scenario = [kind |-> "start", step |-> 0]
  /\ rel = NoRel
  /\ gate = NoGate
  /\ dealt = NoDeal
  /\ life = NoLife
  /\ notice = NoNotice

SpecRestart == InitRestart /\ [][NextRestart]_vars

-----------------------------------------------------------------------------
(* Properties of the MeaningMaker under Spec *)

Test == calls["test"]
Targets == AllMarkers \cup AllImages

\* the query of the invocation has been issued: its state is built
Queried(call) == call.pc \in {"query", "predict", "resolved"} \/ call.diffed
                 \/ (call.pc = "rejected")

InState(t, state) == t \in Elems(state.markers) \cup Elems(state.images)

\* the results the registered stores return for a state
Matched(state) == Elems(getPerceptionResults(artstores, state, {}).value)

\* the results a target alone triggers
TargetState(t) ==
  [markers |-> IF t \in AllMarkers THEN <<t>> ELSE <<>>, geo |-> NoGeo,
   images |-> IF t \in AllImages THEN <<t>> ELSE <<>>]

\* C1: in every response, and in every diff computed after any sequence of
\* earlier ticks, no result is both in found and in lost.
C1_FoundLostDisjoint ==
  \A c \in CallIds : Elems(calls[c].found) \cap Elems(calls[c].lost) = {}

\* a response that finds one result and loses another
C1_Witness ==
  /\ Test.pc = "resolved"
  /\ Test.found # <<>>
  /\ Test.lost # <<>>

\* C3: a target whose last observation is no more than lastSeenTimeBuffer
\* before the tick's clock reading loses none of its results in that tick,
\* whether or not the tick's input lists it.
C3_DebouncedNeverLost ==
  \A t \in Targets :
    (/\ Test.diffed
     /\ lastObserved[t] >= 0
     /\ Test.now - lastObserved[t] <= lastSeenTimeBuffer)
    => Matched(TargetState(t)) \cap Elems(Test.lost) = {}

\* a tick that misses marker X within the window, after its result was
\* found, and resolves without losing it
C3_Witness ==
  /\ Test.pc = "resolved"
  /\ Test.request.markers = <<>>
  /\ lastObserved[MarkerX] >= 0
  /\ Test.now > lastObserved[MarkerX]
  /\ Test.now - lastObserved[MarkerX] <= lastSeenTimeBuffer
  /\ "A" \in Elems(prevPerceptionResults)
  /\ Test.lost = <<>>

\* the first half of C4: a target last observed more than lastSeenTimeBuffer
\* before the tick's clock reading is not in the state handed to the stores
C4_ExpiredTargetsAbsent ==
  \A t \in Targets :
    (/\ Queried(Test)
     /\ lastObserved[t] >= 0
     /\ Test.now - lastObserved[t] > lastSeenTimeBuffer)
    => ~InState(t, Test.state)

\* C4: a target unseen for longer than lastSeenTimeBuffer is absent from the
\* state handed to the stores, and a result that nothing else matches has
\* been reported lost once the caller holds a response of a tick at or after
\* the expiry: the caller no longer shows it.
C4_ExpiredLostExactlyOnce ==
  /\ C4_ExpiredTargetsAbsent
  /\ \A t \in Targets :
       (/\ Test.pc = "resolved"
        /\ lastObserved[t] >= 0
        /\ Test.now - lastObserved[t] > lastSeenTimeBuffer)
       => (Matched(TargetState(t)) \ Matched(Test.state)) \cap shown = {}

\* C5: a second call with the input and the clock reading of the call before
\* it returns no new targets.
C5_RepeatHasNoNewTargets ==
  (Test.pc # "none" /\ rel.repeat) => Test.newTargets = <<>>

\* C6 as stated: with lastSeenTimeBuffer = 0, a target observed before and
\* omitted from a tick's input is absent from that tick's state, whatever the
\* tick's clock reading.
C6_ZeroBufferEveryMissIsLoss ==
  \A t \in Targets :
    (/\ lastSeenTimeBuffer = 0
     /\ Queried(Test)
     /\ lastObserved[t] >= 0
     /\ ~InState(t, Test.request))
    => ~InState(t, Test.state)

\* C6 amended: the same, for a tick whose clock reading is later than the
\* target's last observation.
C6_ZeroBufferMissAtLaterTimeIsLoss ==
  \A t \in Targets :
    (/\ lastSeenTimeBuffer = 0
     /\ Queried(Test)
     /\ lastObserved[t] >= 0
     /\ ~InState(t, Test.request)
     /\ Test.now > lastObserved[t])
    => ~InState(t, Test.state)

\* with a window of 0, a tick later than marker X's observation omits it,
\* X is gone from the state and its result is reported lost
C6_Witness ==
  /\ lastSeenTimeBuffer = 0
  /\ Test.pc = "resolved"
  /\ lastObserved[MarkerX] >= 0
  /\ Test.now > lastObserved[MarkerX]
  /\ ~InState(MarkerX, Test.request)
  /\ ~InState(MarkerX, Test.state)
  /\ "A" \in Elems(Test.lost)

\* C8: a tick returns a response only if no store query it made rejected,
\* and it asks the stores for artifacts at most once.
C8_RejectionFailsTick ==
  \A c \in CallIds :
    /\ calls[c].pc \in {"predict", "resolved"} => calls[c].rejectFind = {}
    /\ calls[c].pc = "resolved" => calls[c].rejectDetect = {}
    /\ calls[c].pc = "rejected" => calls[c].detectableImages = <<>>
    /\ calls[c].queries <= 1

\* one of two stores rejected its artifact query and the tick rejected
C8_Witness ==
  /\ Test.pc = "rejected"
  /\ Test.rejectFind # {}
  /\ Test.rejectFind # Finders(artstores)

-----------------------------------------------------------------------------
(* Properties under SpecScenario and SpecGeo *)

OneLocalStore == artstores = <<LocalStore>>

ScenarioObserved == IF scenario.kind = "marker" THEN MarkerX ELSE ImageL
ScenarioResult == IF scenario.kind = "marker" THEN "A" ELSE "B"

ScenarioFirstTwoTicks ==
  /\ scenario.step = 1 =>
       /\ Test.found = <<ScenarioResult>>
       /\ Test.lost = <<>>
       /\ Test.newTargets = <<ScenarioObserved>>
  /\ scenario.step = 2 =>
       /\ Test.found = <<>>
       /\ Test.lost = <<>>

\* C2 as stated: with one store whose artifact A is matched only by the
\* target, the first tick observing it returns found=[A], lost=[],
\* newTargets=[target]; the next tick observing it returns found=[], lost=[];
\* and with lastSeenTimeBuffer = 0 the next tick observing nothing returns
\* found=[], lost=[A].  The target is marker X or image L.
C2_FindKeepLose ==
  (Test.pc = "resolved" /\ OneLocalStore) =>
    /\ ScenarioFirstTwoTicks
    /\ (scenario.step = 3 /\ lastSeenTimeBuffer = 0) =>
         /\ Test.found = <<>>
         /\ Test.lost = <<ScenarioResult>>

\* C2 amended: the third tick returns lost=[A] when its clock reading is
\* later than that of the second tick.
C2_FindKeepLoseLater ==
  (Test.pc = "resolved" /\ OneLocalStore) =>
    /\ ScenarioFirstTwoTicks
    /\ (scenario.step = 3 /\ lastSeenTimeBuffer = 0 /\ rel.later) =>
         /\ Test.found = <<>>
         /\ Test.lost = <<ScenarioResult>>

\* the third tick of the marker scenario has returned lost=[A]
C2_Witness ==
  /\ Test.pc = "resolved"
  /\ OneLocalStore
  /\ scenario = [kind |-> "marker", step |-> 3]
  /\ lastSeenTimeBuffer = 0
  /\ rel.later
  /\ Test.lost = <<"A">>

\* C7: a tick that hands the stores the markers and images of the tick
\* before it, which got its results, computes found = [] and lost = [];
\* also when the place of the request changed and no store holds a
\* geofenced artifact.
C7_UnchangedStateNoDelta ==
  (Test.diffed /\ rel.unchanged) => (Test.found = <<>> /\ Test.lost = <<>>)

\* the place changed between two ticks with the same targets and results
C7_Witness ==
  /\ Test.pc = "resolved"
  /\ rel.unchanged
  /\ rel.geoChanged
  /\ prevPerceptionResults # <<>>
  /\ Test.found = <<>>
  /\ Test.lost = <<>>

GeoOnly(state) ==
  state.markers = <<>> /\ state.images = <<>> /\ state.geo # NoGeo

\* C19: the place handed to the stores in a tick is the place of that tick's
\* request, none when the request has none; and a tick whose query holds a
\* place alone and matches no artifact of any store computes an empty found
\* and an empty lost.
C19_GeoNeverDebounced ==
  /\ Queried(Test) => Test.state.geo = Test.request.geo
  /\ (Test.diffed /\ GeoOnly(Test.state) /\ Matched(Test.state) = {}) =>
       (Test.found = <<>> /\ Test.lost = <<>>)

\* C19, amended: the place handed to the stores in a tick is the place of
\* that tick's request; and a tick whose query holds a place alone and
\* matches no artifact computes an empty found, and a lost that is the
\* results present before the tick.
C19_GeoCurrentMissLosesPrevious ==
  [][ /\ Queried(Test') => Test'.state.geo = Test'.request.geo
      /\ (~Test.diffed /\ Test'.diffed /\ GeoOnly(Test'.state)
            /\ Matched(Test'.state) = {}) =>
           (Test'.found = <<>> /\ Test'.lost = prevPerceptionResults)
    ]_vars

\* a request with a place alone, after the marker of an earlier tick expired:
\* the stores got the place and nothing else, and the earlier result is lost
C19_Witness ==
  /\ Test.pc = "resolved"
  /\ Test.request.geo = Geo1
  /\ GeoOnly(Test.state)
  /\ Test.state.geo = Geo1
  /\ Matched(Test.state) = {}
  /\ Test.found = <<>>
  /\ Test.lost = <<"A">>

\* C24: every marker and every image that the input of a tick lists is in
\* the state that tick hands to the stores, for every lastSeenTimeBuffer
\* that is not negative and whenever the target was observed before.
C24_InputIsBelievedPresent ==
  Queried(Test) =>
    \A t \in Targets : InState(t, Test.request) => InState(t, Test.state)

\* with a window of 0, a tick lists a marker whose entry dates from an
\* earlier clock reading, and hands it to the stores
C24_Witness ==
  /\ lastSeenTimeBuffer = 0
  /\ Queried(Test)
  /\ rel.later
  /\ Test.request.markers = <<MarkerX>>
  /\ Test.newTargets = <<>>
  /\ InState(MarkerX, Test.state)

\* what the registered stores return for the state of the tick, concatenated
Raw == getPerceptionResults(artstores, Test.state, {}).value

\* C25: when a tick has completed, the stored previous result set holds the
\* results the stores returned in that tick, each once, and nothing else;
\* also when the tick found and lost nothing.
C25_PreviousSetIsCurrentResults ==
  Test.pc = "resolved" =>
    /\ Elems(prevPerceptionResults) = Elems(Raw)
    /\ Len(prevPerceptionResults) = Cardinality(Elems(prevPerceptionResults))

\* a tick without delta whose stores returned one result twice
C25_Witness ==
  /\ Test.pc = "resolved"
  /\ Test.found = <<>>
  /\ Test.lost = <<>>
  /\ Len(Raw) > Len(prevPerceptionResults)
  /\ prevPerceptionResults # <<>>

\* the results of raw[1..n] that occur there for the first time and are not
\* in prev, in the order of raw
RECURSIVE FirstNew(_, _, _)
FirstNew(raw, prev, n) ==
  IF n = 0 THEN <<>>
  ELSE LET rest == FirstNew(raw, prev, n - 1)
       IN IF /\ \A j \in 1..(n - 1) : raw[j] # raw[n]
             /\ raw[n] \notin Elems(prev)
          THEN Append(rest, raw[n]) ELSE rest

\* C26: found lists every result that the stores returned and the previous
\* set did not hold, once, at the place of its first occurrence in the
\* concatenation; lost lists the results of the previous set that the stores
\* did not return, in the order of the previous set.
C26_DeltasKeepInsertionOrder ==
  [][ (Test.pc = "query" /\ Test'.diffed) =>
        /\ Test'.found = FirstNew(Raw, prevPerceptionResults, Len(Raw))
        /\ Test'.lost =
             SelectSeq(prevPerceptionResults, LAMBDA a : a \notin Elems(Raw))
    ]_vars

\* two stores returned A, B, M, M for a marker and an image: found lists M
\* once, after the results of the store registered first
C26_Witness ==
  /\ Test.pc = "resolved"
  /\ Raw = <<"A", "B", "M", "M">>
  /\ Test.found = <<"A", "B", "M">>

\* C27: whenever no tick is in flight, the found and lost of the responses
\* the caller has received so far, applied in order to the empty set, give
\* the stored previous result set; also after ticks that rejected.
C27_DeltasRebuildResultSet ==
  Test.pc \in Settled => shown = Elems(prevPerceptionResults)

\* C28: a tick whose findRelevantArtifacts rejects leaves the stored
\* previous result set as it was and computes no delta; the set changes only
\* in a step that computes a diff, so the next tick that gets its results
\* computes found and lost against the set of the last tick that got its.
C28_AbortedQueryKeepsResultSet ==
  [][ /\ (Test.pc = "query" /\ Test'.pc = "rejected") =>
           /\ prevPerceptionResults' = prevPerceptionResults
           /\ ~Test'.diffed
           /\ Test'.found = <<>> /\ Test'.lost = <<>>
      /\ prevPerceptionResults' # prevPerceptionResults =>
           (Test.pc = "query" /\ Test'.diffed)
      /\ (Test.pc = "query" /\ Test'.diffed) =>
           /\ Elems(Test'.found) = Elems(Raw) \ Elems(prevPerceptionResults)
           /\ Elems(Test'.lost) = Elems(prevPerceptionResults) \ Elems(Raw)
    ]_vars

\* a tick whose query would have changed the result set was aborted by a
\* rejecting store, and the set is still there
C28_Witness ==
  /\ Test.pc = "rejected"
  /\ ~Test.diffed
  /\ Test.rejectFind # {}
  /\ prevPerceptionResults # <<>>
  /\ Matched(Test.state) # Elems(prevPerceptionResults)

\* C29: no presence entry expires before a response the caller received has
\* listed its target in newTargets, also when ticks reject.
C29_NewTargetsAlwaysReported ==
  notice.dropped = {}

\* the step is the first segment of a tick of the caller
TickStarts == Test.pc \in Settled /\ Test'.pc = "sideload"

\* the target has a presence entry of its own kind
HasEntry(t) ==
  IF t \in AllMarkers THEN MapHas(lastSeenMarkers, generateMarkerId(t))
  ELSE MapHas(lastSeenImages, t.id)

Occurrences(seq, x) == Cardinality({i \in 1..Len(seq) : seq[i] = x})

\* C23: the newTargets of a tick lists a target once when the input of the
\* tick lists it and it had no presence entry of its own kind when the tick
\* started, and does not list it otherwise.
C23_NewTargetsAreFirstObservations ==
  [][ TickStarts =>
        \A t \in Targets :
          Occurrences(Test'.newTargets, t) =
            IF InState(t, Test'.request) /\ ~HasEntry(t) THEN 1 ELSE 0
    ]_vars

-----------------------------------------------------------------------------
(* Properties of the PerceptionToolkit under SpecToolkit *)

InFlight(call) == call.pc \in {"sideload", "query", "predict"}

\* C9 as stated: while captureFrame events keep arriving, after a
\* captureFrame whose updatePerceptionState rejected the isProcessingFrame
\* lock is eventually released, so that a later captureFrame is processed.
C9_LockEventuallyReleased ==
  ([]<><<CaptureFrame>>_vars) =>
    ((framePc = "tick" /\ calls["frame"].pc = "rejected") ~> ~isProcessingFrame)

\* C10 as stated: at any time at most one updatePerceptionState call driven
\* by the toolkit is in flight, counting the captureFrame ticks and the
\* initial tick of beginDetection.
C10_TicksDoNotOverlap ==
  ~(InFlight(calls["frame"]) /\ InFlight(calls["begin"]))

-----------------------------------------------------------------------------
(* Properties of the aggregation and of the query *)

TwoStores == artstores = <<LocalStore, CustomStore>>

\* C11: with two registered stores that each hold an artifact matched by
\* marker X (A in the first, M in the second), the first tick, observing X,
\* returns found = [A, M]: both artifacts, the first store's before the
\* second's.
C11_BothStoresInRegistrationOrder ==
  (/\ Test.pc = "resolved"
   /\ TwoStores
   /\ scenario = [kind |-> "marker", step |-> 1])
  => Test.found = <<"A", "M">>

\* the first tick, with two stores, has returned both artifacts
C11_Witness ==
  /\ Test.pc = "resolved"
  /\ TwoStores
  /\ scenario = [kind |-> "marker", step |-> 1]
  /\ Test.found = <<"A", "M">>

\* the target has been observed and not for longer than lastSeenTimeBuffer
BelievedPresent(t, now) ==
  lastObserved[t] >= 0 /\ now - lastObserved[t] <= lastSeenTimeBuffer

\* C12: the markers and images handed to findRelevantArtifacts in a tick are
\* exactly the targets observed at most lastSeenTimeBuffer before the tick's
\* clock reading, whether or not the tick's request lists them.
C12_QueryUsesBelievedPresentState ==
  Queried(Test) =>
    /\ \A t \in Targets : InState(t, Test.state) <=> BelievedPresent(t, Test.now)
    /\ Len(Test.state.markers) = Cardinality(Elems(Test.state.markers))
    /\ Len(Test.state.images) = Cardinality(Elems(Test.state.images))

\* a marker that the request does not list is part of the query
C12_Witness ==
  /\ Queried(Test)
  /\ Test.request.markers = <<>>
  /\ InState(MarkerX, Test.state)
  /\ Test.now > lastObserved[MarkerX]

-----------------------------------------------------------------------------
(* Properties of the side loading under SpecSideLoad and SpecGate *)

PendingFor(u) == {i \in 1..Len(pending) : pending[i].href = u}

\* C13: once a URL has been loaded (it is in the cache), ArtifactLoader.fromUrl
\* is not called for it again and its artifacts have been added to the
\* default store once: no fetch of it is in flight and it was saved once.
C13_UrlLoadedOnce ==
  \A u \in Urls :
    u \in artifactsForUrl => (saves[u] = 1 /\ PendingFor(u) = {})

\* C14 as stated: the artifact query of a tick is issued without waiting for
\* the tick's side loading: a tick that has made its first segment can
\* issue the query whatever fetches are in flight.
C14_QueryNotDelayedByLoad ==
  Test.pc = "sideload" => ENABLED SlIssueQuery

\* C14 amended: the artifact query of a tick is issued only after every load
\* of the tick's side loading has settled.
C14_QueryAfterSideLoads ==
  \A i \in 1..Len(pending) :
    pending[i].owner \in CallIds => calls[pending[i].owner].pc = "sideload"

\* the first tick observing the URL marker has found the artifact that its
\* own side loading added to the store
C14_Witness ==
  /\ Test.pc = "resolved"
  /\ Test.newTargets = <<MarkerU>>
  /\ "D1" \in Elems(Test.found)

\* C15: a tick is not aborted by its side loading: it rejects only when a
\* store query rejected, whatever markers it was given and whatever loads
\* failed, and a tick that resolves has made its diff.
C15_SideLoadNeverAbortsTick ==
  /\ Test.pc = "rejected" => (Test.rejectFind # {} \/ Test.rejectDetect # {})
  /\ Test.pc = "resolved" => Test.diffed
  /\ \A i \in 1..Len(pending) : NewURL(pending[i].href).ok

\* a tick whose load failed has resolved
C15_Witness ==
  /\ Test.pc = "resolved"
  /\ Test.failedLoads > 0
  /\ Test.request.markers = <<MarkerU>>

\* what the gate is claimed to answer
ClaimedAccept(p, url) ==
  \/ p.kind = "omitted" /\ url.origin = PageOrigin
  \/ p.kind = "list" /\ url.origin \in Elems(p.origins)
  \/ p.kind = "fn" /\ url.href \in p.accepts

\* C16: a call loadArtifactsFromSupportedUrl(url, p) loads the URL iff the
\* predicate accepts it (same origin when p is omitted, membership when p
\* is a list of origins, p(url) when p is a function); when it does not,
\* the loader, the default store and the URL cache are left as they were.
C16_GateLoadsIffAccepted ==
  [][gate' # gate =>
       /\ (gate'.step # "none") <=> ClaimedAccept(gate'.p, gate'.url)
       /\ gate'.step = "fetch" <=>
            (fromUrlCalls' # fromUrlCalls /\ pending' # pending)
       /\ gate'.step = "none" =>
            UNCHANGED <<fromUrlCalls, pending, artstores, artifactsForUrl, saves>>
    ]_vars

\* a list of origins without the URL's origin has refused the URL
C16_Witness ==
  /\ gate.p = OriginList(<<OtherOrigin>>)
  /\ gate.url = NewURL(UrlA)
  /\ gate.step = "none"
  /\ fromUrlCalls[UrlA] = 0

-----------------------------------------------------------------------------
(* Properties of the ArtifactDealer under SpecDealer *)

\* the store, with every method it lacks added as one that returns []
WithEmptyMethods(store) ==
  [find |-> TRUE, detect |-> TRUE,
   entries |-> IF store.find THEN store.entries ELSE <<>>,
   images |-> IF store.detect THEN store.images ELSE <<>>]

AllWithEmptyMethods(stores) ==
  [i \in 1..Len(stores) |-> WithEmptyMethods(stores[i])]

\* C17: a dealer method returns what it would return if every store that
\* lacks the queried method had it and returned [], and it fails only when
\* a store that has the method rejects.
C17_AbsentCapabilityIsEmpty ==
  /\ dealt.pc = "fulfilled" =>
       dealt.value =
         IF dealt.method = "find"
         THEN getPerceptionResults(AllWithEmptyMethods(artstores),
                                   dealt.state, {}).value
         ELSE predictPerceptionTargets(AllWithEmptyMethods(artstores),
                                       dealt.state, {}).value
  /\ dealt.pc = "rejected" => dealt.rejecting # {}
  /\ dealt.rejecting \subseteq Capable(artstores, dealt.method)

\* a query over a store without findRelevantArtifacts and a store with it
\* has returned the results of the second
C17_Witness ==
  /\ artstores = <<CatalogStore, LocalStore>>
  /\ dealt.pc = "fulfilled"
  /\ dealt.method = "find"
  /\ dealt.value = <<"A">>

\* what store i returns for the call, [] when it lacks the method
StoreResult(i) ==
  IF dealt.method = "find"
  THEN IF artstores[i].find
       THEN findRelevantArtifacts(artstores[i], dealt.state) ELSE <<>>
  ELSE IF artstores[i].detect
       THEN getDetectableImages(artstores[i], dealt.state) ELSE <<>>

RECURSIVE ConcatUpTo(_)
ConcatUpTo(n) == IF n = 0 THEN <<>> ELSE ConcatUpTo(n - 1) \o StoreResult(n)

\* C18: the result of a dealer method is result(s1) ++ ... ++ result(sn) for
\* the stores in registration order, each store's order and every duplicate
\* kept, in whatever order the stores answered.
C18_PlainConcatenation ==
  dealt.pc = "fulfilled" => dealt.value = ConcatUpTo(Len(artstores))

\* two stores that both list image L have answered in reverse order and the
\* result lists L twice, the first store's entry first
C18_Witness ==
  /\ artstores = <<LocalStore, CatalogStore>>
  /\ dealt.pc = "fulfilled"
  /\ dealt.method = "detect"
  /\ dealt.arrived = <<2, 1>>
  /\ dealt.value = << <<"L">>, <<"L">>, <<"K">> >>

-----------------------------------------------------------------------------
(* Properties of the marker identity key under SpecMarkerId *)

\* C20: two markers of a request have the same identity key exactly when
\* they have the same type and the same value, also when a type or a value
\* holds the separator's character; so every marker of the request has a
\* presence entry of its own.
C20_MarkerIdCollisionFree ==
  /\ \A m1, m2 \in Elems(Test.request.markers) :
       (generateMarkerId(m1) = generateMarkerId(m2)) <=>
         (m1.type = m2.type /\ m1.value = m2.value)
  /\ Test.pc # "none" =>
       \A m \in Elems(Test.request.markers) :
         \E i \in 1..Len(lastSeenMarkers) : lastSeenMarkers[i].val = m

-----------------------------------------------------------------------------
(* Properties of a stopped and restarted PerceptionToolkit under SpecRestart *)

\* C21: after stop() and start(), the first tick that observes a marker that
\* had a presence entry at the stop reports the marker in newTargets, and
\* its response reports a result of the marker in found.
C21_StopResetsPresence ==
  \A m \in life.first \cap life.before :
    life.restarts > 0 =>
      /\ calls["frame"].pc # "none" =>
           m \in Elems(calls["frame"].newTargets)
      /\ calls["frame"].pc = "resolved" =>
           Matched(TargetState(m)) \cap Elems(calls["frame"].found) # {}

-----------------------------------------------------------------------------
(* Properties of loadArtifactsFromUrl under SpecLoad *)

\* a fetch has answered in the step, and nothing was saved: it failed
LoadFailed ==
  Len(pending') < Len(pending) /\ saves' = saves

\* a tick that observes the marker of URL u starts in the step
TickObserves(u) ==
  /\ Test.pc \in Settled
  /\ Test'.pc = "sideload"
  /\ \E i \in 1..Len(Test'.request.markers) : Test'.request.markers[i].value = u

\* C22: a load that fails rejects, adds no artifact to the default store,
\* records nothing in the URL cache and starts no fetch; a URL of which no
\* load succeeded is not in the cache, and every later direct call, and
\* every tick that observes a marker with that URL, calls the loader again.
C22_FailedLoadLeavesNoTrace ==
  [][ /\ LoadFailed =>
           /\ gate'.step = "rejected"
           /\ artstores' = artstores
           /\ artifactsForUrl' = artifactsForUrl
           /\ fromUrlCalls' = fromUrlCalls
      /\ \A u \in Urls :
           /\ saves'[u] = 0 => u \notin artifactsForUrl'
           /\ (saves[u] = 0 /\ gate' # gate /\ gate'.url.href = u
                 /\ Len(pending') >= Len(pending)) =>
                (gate'.step = "fetch" /\ fromUrlCalls'[u] = fromUrlCalls[u] + 1)
           /\ (saves[u] = 0 /\ TickObserves(u) /\ NewURL(u).origin = PageOrigin) =>
                fromUrlCalls'[u] > fromUrlCalls[u]
    ]_vars

\* the load of a URL failed, and a second direct call has fetched it again
C22_Witness ==
  /\ gate.step = "fetch"
  /\ fromUrlCalls[gate.url.href] = 2
  /\ saves[gate.url.href] = 0
  /\ artifactsForUrl = {}
  /\ pending = <<[owner |-> "api", href |-> gate.url.href]>>

-----------------------------------------------------------------------------
(* Properties of the side loading under SpecDynamic *)

\* the caller's first tick observed the URL marker, its load did not fail,
\* and the tick has resolved
FirstTickLoaded(call) ==
  /\ call.pc = "resolved"
  /\ call.request.markers = <<MarkerU>>
  /\ call.failedLoads = 0

\* the tick has resolved, listed no marker, and followed a resolved tick that
\* handed the URL marker to the stores after its page was loaded
FollowsLoadedTick ==
  /\ Test.pc = "resolved"
  /\ Test.request.markers = <<>>
  /\ rel.before.pc = "resolved"
  /\ rel.before.state.markers = <<MarkerU>>
  /\ saves[UrlA] = 1

\* C30: the first tick, observing a marker whose value is an accepted and
\* loadable URL, returns the artifact of that page alone in found and
\* nothing in lost; with lastSeenTimeBuffer = 0 a following tick without
\* markers returns that artifact in lost.
C30_SideLoadedFoundThenLost ==
  /\ (rel.before.pc = "none" /\ FirstTickLoaded(Test)) =>
       (Test.found = <<"D1">> /\ Test.lost = <<>>)
  /\ (lastSeenTimeBuffer = 0 /\ FollowsLoadedTick) => Test.lost = <<"D1">>

\* C30, amended: the same, the following tick being one whose clock reading
\* is later than that of the tick before it.
C30_SideLoadedFoundThenLostLater ==
  /\ (rel.before.pc = "none" /\ FirstTickLoaded(Test)) =>
       (Test.found = <<"D1">> /\ Test.lost = <<>>)
  /\ (lastSeenTimeBuffer = 0 /\ FollowsLoadedTick /\ rel.later) =>
       Test.lost = <<"D1">>

\* with a window of 0, the tick after the one that loaded and found the
\* page's artifact lists no marker, at a later clock reading, and loses it
C30_Witness ==
  /\ lastSeenTimeBuffer = 0
  /\ FollowsLoadedTick
  /\ rel.later
  /\ fromUrlCalls[UrlA] = 1
  /\ Test.found = <<>>
  /\ Test.lost = <<"D1">>

-----------------------------------------------------------------------------
(* Overlapping loads of one URL under SpecLoad *)

\* C31: for each URL at most one fetch of the loader is in flight at any
\* time and the artifacts of the URL are added to the default store at most
\* once, also when a tick observes the URL's marker, or a second direct call
\* is made, while a load of that URL is in flight.
C31_OneLoadPerUrl ==
  \A u \in Urls :
    /\ Cardinality(PendingFor(u)) <= 1
    /\ saves[u] <= 1

-----------------------------------------------------------------------------
(* Registration of further stores, interleaved with ticks and side loads *)

MaxStores == 2

\* faulty variant: a new store is put in front of the registered ones
addArtifactStoreFirst(stores, store) == <<store>> \o stores

\* ArtifactDealer.addArtifactStore: artstores.push(artstore)
addArtifactStore(stores, store) == Append(stores, store)

\* MeaningMaker.addArtifactStore, called by the application at any time
AddArtifactStore(store) ==
  /\ Len(artstores) <= MaxStores
  /\ artstores' = addArtifactStore(artstores, store)
  /\ UNCHANGED <<clock, lastSeenTimeBuffer, lastSeenMarkers, lastSeenImages,
                 prevPerceptionResults, calls, artifactsForUrl, pending,
                 fromUrlCalls, saves>>

StAdd ==
  \E store \in {CustomStore, CatalogStore, BareStore} :
    /\ AddArtifactStore(store)
    /\ UNCHANGED <<histVars, tkVars>>

NextStores ==
  \/ StAdd
  \/ LdInvoke
  \/ SlLoadDone
  \/ SlIssueQuery
  \/ TestQueryDone
  \/ GeoPredictDone

SpecStores == InitSideLoad /\ [][NextStores]_vars

\* which store object an element of the list is: the default store's content
\* grows with side loading, its identity does not
StoreIdentity(store) ==
  [find |-> store.find, detect |-> store.detect, images |-> store.images]

StoreIdentities(stores) == [i \in 1..Len(stores) |-> StoreIdentity(stores[i])]

IsExtensionOf(later, earlier) ==
  /\ Len(earlier) <= Len(later)
  /\ \A i \in 1..Len(earlier) : later[i] = earlier[i]

\* C32: the list of registered stores is append-only: every step leaves the
\* stores registered so far at their positions (a registration adds one
\* store at the end, a side load changes only the content of the default
\* store), and the default store registered by the constructor stays first.
C32_StoreListAppendOnly ==
  [][/\ IsExtensionOf(StoreIdentities(artstores'), StoreIdentities(artstores))
     /\ Len(artstores') \in {Len(artstores), Len(artstores) + 1}
     /\ StoreIdentity(artstores'[1]) = StoreIdentity(LocalStore)]_vars

C32_Witness ==
  /\ Len(artstores) = MaxStores + 1
  /\ artstores[2] # artstores[3]
  /\ saves[UrlA] = 1

-----------------------------------------------------------------------------
(* A caller that awaits every tick, after the application registered a      *)
(* store that answers getDetectableImages by the state it is shown.         *)

PrAdd ==
  /\ calls["test"].pc = "none"
  /\ Len(artstores) = 1
  /\ AddArtifactStore(NearbyStore)
  /\ UNCHANGED <<histVars, tkVars>>

NextPredict ==
  \/ PrAdd
  \/ TestInvoke
  \/ TestIssueQuery
  \/ TestQueryDone
  \/ TestPredictDone
  \/ TestSetBuffer

SpecPredict == InitSideLoad /\ [][NextPredict]_vars

NearbyRegistered == \E i \in 1..Len(artstores) : artstores[i] = NearbyStore

\* C33: the catalogs of a tick are asked with the raw request and the
\* artifact query with the believed-present state: in a resolved tick the
\* image that a store offers for marker X is among detectableImages exactly
\* when the tick's request lists X, while the result of X is in the current
\* result set exactly when X was observed within the window.
C33_CatalogsSeeRawRequest ==
  (Test.pc = "resolved" /\ NearbyRegistered) =>
    /\ <<"N">> \in Elems(Test.detectableImages)
         <=> MarkerX \in Elems(Test.request.markers)
    /\ "A" \in Elems(prevPerceptionResults)
         <=> BelievedPresent(MarkerX, Test.now)

C33_Witness ==
  /\ Test.pc = "resolved"
  /\ NearbyRegistered
  /\ MarkerX \notin Elems(Test.request.markers)
  /\ "A" \in Elems(prevPerceptionResults)
  /\ <<"N">> \notin Elems(Test.detectableImages)
  /\ <<"L">> \in Elems(Test.detectableImages)

-----------------------------------------------------------------------------
(* PerceptionToolkit.onCaptureFrame after its tick: the events it fires and *)
(* the cards it puts into the card container.                               *)

MaxCards == 2

MarkerY == [type |-> <<"q">>, value |-> <<"Y">>]
MarkerZ == [type |-> <<"q">>, value |-> <<"Z">>]

\* for (const x of items) { if (childNodes.length >= maxCards) break;
\*                          cardContainer.appendChild(card) }
RECURSIVE AppendCards(_, _, _, _)
AppendCards(children, items, kind, max) ==
  IF items = <<>> \/ Len(children) >= max THEN children
  ELSE AppendCards(Append(children, kind), Tail(items), kind, max)

\* faulty variant: a card is shown for every unknown target
handleUnknownItemsUnlimited(u, targets) ==
  IF ~u.cardContainer \/ ~u.acknowledgeUnknownItems THEN u
  ELSE [u EXCEPT !.children =
          @ \o [i \in 1..Len(targets) |-> "item-not-known"]]

handleUnknownItems(u, targets) ==
  IF ~u.cardContainer \/ ~u.acknowledgeUnknownItems THEN u
  ELSE [u EXCEPT !.children =
          AppendCards(@, targets, "item-not-known", u.maxCards)]

removeUnknownItemsIfFound(u, contentDiff) ==
  IF ~u.cardContainer \/ Len(contentDiff.found) = 0 THEN u
  ELSE LET Known(kind) == kind # "item-not-known"
       IN [u EXCEPT !.children = SelectSeq(@, Known)]

createCardsForFoundItems(u, contentDiff) ==
  IF ~u.cardContainer THEN u
  ELSE [u EXCEPT !.children =
          AppendCards(@, contentDiff.found, "card", u.maxCards)]

updateContentDisplay(u, contentDiff) ==
  IF ~u.cardContainer THEN u
  ELSE createCardsForFoundItems(removeUnknownItemsIfFound(u, contentDiff),
                                contentDiff)

\* faulty variant: the event is fired for found results alone
ResultsChangedFoundOnly(response) == Len(response.found) > 0

\* if (response.found.length > 0 || response.lost.length > 0)
ResultsChanged(response) ==
  Len(response.found) > 0 \/ Len(response.lost) > 0

\* lines 1068-1101: the events fired for a response and the cards shown;
\* defaultPrevented is what the listeners of perceivedResults did
Dispatch(u, response, defaultPrevented) ==
  LET detected == IF Len(response.newTargets) > 0 THEN response.newTargets
                  ELSE <<>>
      changed == ResultsChanged(response)
      fired == [u EXCEPT
                  !.markerDetect = detected,
                  !.perceivedResults =
                     IF changed
                     THEN << [found |-> response.found, lost |-> response.lost] >>
                     ELSE <<>>]
      shownCards == IF changed /\ ~defaultPrevented
                    THEN updateContentDisplay(fired, response) ELSE fired
  IN IF Len(response.newTargets) > Len(response.found)
        /\ Len(response.found) = 0
     THEN handleUnknownItems(shownCards, response.newTargets)
     ELSE shownCards

\* detectorsToUse = { barcode: true, image: false }
CardRequests ==
  [markers : { <<>>, <<MarkerX>>, <<MarkerY>>, <<MarkerY, MarkerZ>> },
   images : {<<>>}, geo : {NoGeo}, shouldLoadArtifactsFrom : {Omitted}]

FrTick ==
  \E request \in CardRequests, dt \in FrameSteps :
    /\ framePc = "detect"
    /\ Invoke("frame", request, dt)
    /\ framePc' = "tick"
    /\ UNCHANGED <<histVars, isProcessingFrame, captureActive, beginPc,
                   frameParity, pageVars>>

\* onCaptureFrame after its tick resolved, to "Unlock!"
FrFinish ==
  \E defaultPrevented \in BOOLEAN :
    /\ framePc = "tick"
    /\ calls["frame"].pc = "resolved"
    /\ ui' = Dispatch(ui, calls["frame"], defaultPrevented)
    /\ isProcessingFrame' = FALSE
    /\ framePc' = "idle"
    /\ UNCHANGED <<mmVars, histVars, captureActive, beginPc, frameParity,
                   det, card>>

\* the stores answer the frame's tick
FrIssueQuery ==
  /\ IssueQuery("frame", {})
  /\ UNCHANGED <<histVars, tkVars>>

FrQueryDone ==
  /\ QueryDone("frame", {})
  /\ UNCHANGED <<histVars, tkVars>>

FrPredictDone ==
  /\ PredictDone("frame")
  /\ UNCHANGED <<histVars, tkVars>>

NextFrame ==
  \/ CaptureFrame
  \/ FrTick
  \/ FrFinish
  \/ FrIssueQuery
  \/ FrQueryDone
  \/ FrPredictDone

\* the configurations of the page: with a card container that holds at most
\* maxCards children, or without one
UiConfigs ==
  {NoUi} \cup
  { [NoUi EXCEPT !.cardContainer = TRUE, !.acknowledgeUnknownItems = ack,
                 !.maxCards = max, !.children = [i \in 1..n |-> "other"]] :
      ack \in BOOLEAN, max \in 0..MaxCards, n \in 0..MaxCards }

\* the call of updatePerceptionState({}) that beginDetection made, resolved
BegunCall ==
  [NoCall EXCEPT !.pc = "resolved", !.diffed = TRUE, !.queries = 1,
                 !.detectableImages = << <<"L">> >>]

\* beginDetection has run on a page that shows no target: the capture is on
InitFrame ==
  /\ clock = 0
  /\ lastSeenTimeBuffer = MaxBuffer
  /\ lastSeenMarkers = <<>>
  /\ lastSeenImages = <<>>
  /\ prevPerceptionResults = <<>>
  /\ artstores = <<LocalStore, CustomStore>>
  /\ calls = [c \in CallIds |-> IF c = "begin" THEN BegunCall ELSE NoCall]
  /\ artifactsForUrl = {}
  /\ pending = <<>>
  /\ fromUrlCalls = [u \in Urls |-> 0]
  /\ saves = [u \in Urls |-> 0]
  /\ gate = NoGate
  /\ dealt = NoDeal
  /\ life = NoLife
  /\ notice = NoNotice
  /\ lastObserved = [t \in AllMarkers \cup AllImages |-> -1]
  /\ shown = {}
  /\ scenario = [kind |-> "start", step |-> 0]
  /\ rel = NoRel
  /\ isProcessingFrame = FALSE
  /\ captureActive = TRUE
  /\ beginPc = "done"
  /\ framePc = "idle"
  /\ frameParity = 0
  /\ ui \in UiConfigs
  /\ Len(ui.children) <= ui.maxCards
  /\ det = NoDetector
  /\ card = NoCard

SpecFrame == InitFrame /\ [][NextFrame]_vars

FrameDelivered == framePc = "idle" /\ calls["frame"].pc = "resolved"

\* C34: for the response of a processed frame, perceivedResults is fired
\* (once) exactly when found or lost is non-empty, and markerDetect is fired
\* once for each element of newTargets, in order; when all three are empty no
\* event is fired.
C34_EventsFollowResponse ==
  FrameDelivered =>
    LET response == calls["frame"]
    IN /\ Len(ui.perceivedResults) =
            (IF response.found # <<>> \/ response.lost # <<>> THEN 1 ELSE 0)
       /\ ui.markerDetect = response.newTargets
       /\ (response.found = <<>> /\ response.lost = <<>>
             /\ response.newTargets = <<>>)
            => (ui.perceivedResults = <<>> /\ ui.markerDetect = <<>>)

C34_Witness ==
  /\ FrameDelivered
  /\ calls["frame"].found = <<>>
  /\ calls["frame"].lost # <<>>
  /\ Len(ui.perceivedResults) = 1
  /\ ui.markerDetect = <<MarkerY, MarkerZ>>

\* C35: a card container that holds at most maxCards children before the
\* first frame holds at most maxCards children after every processed frame,
\* whether the frame adds cards for found results or for unknown values.
C35_AtMostMaxCards ==
  ui.cardContainer => Len(ui.children) <= ui.maxCards

C35_Witness ==
  /\ FrameDelivered
  /\ ui.cardContainer
  /\ ui.maxCards = MaxCards
  /\ Len(ui.children) = ui.maxCards
  /\ ui.children[1] = "other"
  /\ ui.children[Len(ui.children)] = "item-not-known"
  /\ Len(calls["frame"].newTargets) = 2

-----------------------------------------------------------------------------
(* The planar image detector: the Detector of the page, its worker, and the *)
(* two message queues between them.  det.targets is Detector.targets (a Map *)
(* kept as a sequence of entries), det.live the detections registered in    *)
(* the worker's PlanarTargetDetector, det.ops the calls of the module's     *)
(* functions so far; a message carries the position of its call as msgId,   *)
(* and 0 for the messages of clear().  The worker is ready.                 *)

MaxOps == 4

ImageIds == {"Lighthouse", "Harbour"}
Frames == {{"Lighthouse"}, {"Lighthouse", "Harbour"}}

TargetsHas(map, idx) == \E i \in 1..Len(map) : map[i].key = idx

TargetsGet(map, idx) ==
  LET i == CHOOSE k \in 1..Len(map) : map[k].key = idx IN map[i].id

\* this.targets.set(idx, { id })
TargetsSet(map, idx, id) ==
  IF TargetsHas(map, idx)
  THEN [i \in 1..Len(map) |->
          IF map[i].key = idx THEN [key |-> idx, id |-> id] ELSE map[i]]
  ELSE Append(map, [key |-> idx, id |-> id])

\* this.targets.delete(idx)
TargetsDelete(map, idx) ==
  LET Other(e) == e.key # idx IN SelectSeq(map, Other)

NoOp ==
  [kind |-> "none", arg |-> 0, pc |-> "sent", undisturbed |-> FALSE,
   expectedAtCall |-> {}, removedAtCall |-> {}, emptyAtCall |-> FALSE,
   messaged |-> FALSE, result |-> <<>>]

InFlightOps(d) == {i \in 1..Len(d.ops) : d.ops[i].pc = "sent"}

Clearing(d) == d.clearPc \in {"removing", "resetting"}

\* a call made while a detection is in flight: the detection no longer runs
\* alone
Disturb(ops) ==
  [i \in 1..Len(ops) |->
     IF ops[i].pc = "sent" THEN [ops[i] EXCEPT !.undisturbed = FALSE]
     ELSE ops[i]]

\* Detector.send: the callback is kept under the message id and the message
\* is posted
Send(d, msg) == [d EXCEPT !.toWorker = Append(@, msg)]

\* addDetectionTarget -> Detector.addTarget
addTarget(d, id) ==
  LET called == [d EXCEPT !.created = TRUE, !.started = @ + 1,
                          !.ops = Append(Disturb(@),
                                    [NoOp EXCEPT !.kind = "add", !.arg = id])]
  IN Send(called, [type |-> "add", data |-> 0, id |-> id,
                   msgId |-> Len(called.ops)])

\* removeDetectionTarget -> Detector.removeTarget
removeTarget(d, idx) ==
  LET called == [d EXCEPT !.created = TRUE, !.started = @ + 1,
                          !.ops = Append(Disturb(@),
                                    [NoOp EXCEPT !.kind = "remove", !.arg = idx])]
  IN Send(called, [type |-> "remove", data |-> idx, id |-> "",
                   msgId |-> Len(called.ops)])

\* faulty variant: the frame is posted to the worker whatever the Map holds
detectAlwaysPosts(d, frame) ==
  LET op == [NoOp EXCEPT !.kind = "detect", !.arg = frame,
                         !.undisturbed = (InFlightOps(d) = {} /\ ~Clearing(d)),
                         !.expectedAtCall = d.expected,
                         !.removedAtCall = d.removed,
                         !.emptyAtCall = (Len(d.targets) = 0),
                         !.messaged = TRUE]
  IN Send([d EXCEPT !.created = TRUE, !.started = @ + 1, !.ops = Append(@, op)],
          [type |-> "process", data |-> frame, id |-> "",
           msgId |-> Len(d.ops) + 1])

\* detectPlanarImages -> Detector.detect: without targets the promise is
\* resolved at once, otherwise the frame is posted to the worker
detect(d, frame) ==
  LET op == [NoOp EXCEPT !.kind = "detect", !.arg = frame,
                         !.undisturbed = (InFlightOps(d) = {} /\ ~Clearing(d)),
                         !.expectedAtCall = d.expected,
                         !.removedAtCall = d.removed,
                         !.emptyAtCall = (Len(d.targets) = 0)]
      base == [d EXCEPT !.created = TRUE, !.started = @ + 1]
  IN IF Len(d.targets) = 0
     THEN [base EXCEPT !.ops = Append(@, [op EXCEPT !.pc = "done"])]
     ELSE Send([base EXCEPT !.ops = Append(@, [op EXCEPT !.messaged = TRUE])],
               [type |-> "process", data |-> frame, id |-> "",
                msgId |-> Len(d.ops) + 1])

\* Detector.clear from the top of its loop: the next key of the Map is
\* removed, or the Map is cleared and 'reset' is posted
clearStep(d) ==
  IF d.targets # <<>>
  THEN Send([d EXCEPT !.clearPc = "removing"],
            [type |-> "remove", data |-> d.targets[1].key, id |-> "",
             msgId |-> 0])
  ELSE Send([d EXCEPT !.clearPc = "resetting", !.targets = <<>>],
            [type |-> "reset", data |-> 0, id |-> "", msgId |-> 0])

\* reset(): nothing without a Detector, otherwise Detector.clear()
reset(d) ==
  LET called == [d EXCEPT !.started = @ + 1, !.ops = Disturb(@),
                          !.expected = {}, !.removed = {}]
  IN IF ~d.created
     THEN [called EXCEPT !.clearPc = "resolved", !.afterReset = d.targets]
     ELSE clearStep(called)

\* PlanarTargetDetector.addDetectionWithId for an index that is in use:
\* the earlier detection is replaced, or both are kept
addDetectionWithId(live, idx, id, replaces) ==
  LET Other(e) == e.idx # idx
  IN Append(IF replaces THEN SelectSeq(live, Other) ELSE live,
            [idx |-> idx, id |-> id])

\* PlanarTargetDetector.cancelDetection
cancelDetection(live, idx) ==
  LET Other(e) == e.idx # idx IN SelectSeq(live, Other)

\* PlanarTargetDetector.process: the indexes of the detections whose image
\* the frame shows
process(live, frame) ==
  LET Shown(e) == e.id \in frame
      hit == SelectSeq(live, Shown)
  IN [i \in 1..Len(hit) |-> hit[i].idx]

\* self.onmessage of the worker, for the message at the head of its queue
onmessage(d, replaces) ==
  LET msg == Head(d.toWorker)
      rest == [d EXCEPT !.toWorker = Tail(@)]
      Post(x, data) ==
        [x EXCEPT !.toPage = Append(@, [msgId |-> msg.msgId, data |-> data])]
  IN CASE msg.type = "process" ->
            Post(rest, process(d.live, msg.data))
       [] msg.type = "add" ->
            Post([rest EXCEPT
                    !.live = addDetectionWithId(@, d.addCount, msg.id, replaces),
                    !.addCount = @ + 1],
                 <<d.addCount, msg.id>>)
       [] msg.type = "remove" ->
            Post([rest EXCEPT !.live = cancelDetection(@, msg.data)], msg.data)
       [] OTHER ->
            Post([rest EXCEPT !.addCount = START_INDEX,
                              !.restartedOver = @ \o d.live], 0)

\* the matches of the worker remapped to markers: ids.map(...).filter(...)
Remap(targets, matches) ==
  LET Known(idx) == TargetsHas(targets, idx)
      kept == SelectSeq(matches, Known)
  IN [i \in 1..Len(kept) |-> TargetsGet(targets, kept[i])]

\* Detector's worker.onmessage: the callback kept under the message id of
\* the message at the head of the page's queue is called
callback(d) ==
  LET msg == Head(d.toPage)
      rest == [d EXCEPT !.toPage = Tail(@)]
      op == d.ops[msg.msgId]
      Done(x, result) ==
        [x EXCEPT !.ops[msg.msgId].pc = "done",
                  !.ops[msg.msgId].result = result]
  IN IF msg.msgId = 0
     THEN IF d.clearPc = "removing"
          THEN clearStep([rest EXCEPT !.targets = TargetsDelete(@, msg.data)])
          ELSE [rest EXCEPT !.clearPc = "resolved", !.afterReset = d.targets,
                            !.expected = {}, !.removed = {}]
     ELSE CASE op.kind = "add" ->
                 Done([rest EXCEPT
                         !.targets = TargetsSet(@, msg.data[1], msg.data[2]),
                         !.expected =
                            IF Clearing(d) THEN @
                            ELSE {e \in @ : e.idx # msg.data[1]}
                                 \cup {[idx |-> msg.data[1], id |-> msg.data[2]]}],
                      <<msg.data[1]>>)
            [] op.kind = "remove" ->
                 LET gone == {e \in d.expected : e.idx = msg.data}
                 IN Done([rest EXCEPT
                            !.targets = TargetsDelete(@, msg.data),
                            !.expected = @ \ gone,
                            !.removed = @ \cup {e.id : e \in gone}],
                         <<>>)
            [] OTHER ->
                 Done(rest, Remap(d.targets, msg.data))

\* the indexes the caller holds: those its addDetectionTarget calls returned
ReturnedIndexes(d) ==
  {d.ops[i].result[1] : i \in {k \in 1..Len(d.ops) :
                                 d.ops[k].kind = "add" /\ d.ops[k].pc = "done"}}

DtAdd ==
  \E id \in ImageIds :
    /\ det.started < MaxOps
    /\ det' = addTarget(det, id)
    /\ UNCHANGED <<mmVars, histVars, isProcessingFrame, captureActive, beginPc,
                   framePc, frameParity, ui, card>>

DtRemove ==
  \E idx \in ReturnedIndexes(det) :
    /\ det.started < MaxOps
    /\ det' = removeTarget(det, idx)
    /\ UNCHANGED <<mmVars, histVars, isProcessingFrame, captureActive, beginPc,
                   framePc, frameParity, ui, card>>

DtDetect ==
  \E frame \in Frames :
    /\ det.started < MaxOps
    /\ det' = detect(det, frame)
    /\ UNCHANGED <<mmVars, histVars, isProcessingFrame, captureActive, beginPc,
                   framePc, frameParity, ui, card>>

\* reset(), as the tests' afterEach and PerceptionToolkit.stop() call it
DtReset ==
  /\ det.started < MaxOps
  /\ ~Clearing(det)
  /\ det' = reset(det)
  /\ UNCHANGED <<mmVars, histVars, isProcessingFrame, captureActive, beginPc,
                 framePc, frameParity, ui, card>>

DtWorker ==
  \E replaces \in BOOLEAN :
    /\ det.toWorker # <<>>
    /\ det' = onmessage(det, replaces)
    /\ UNCHANGED <<mmVars, histVars, isProcessingFrame, captureActive, beginPc,
                   framePc, frameParity, ui, card>>

DtCallback ==
  /\ det.toPage # <<>>
  /\ det' = callback(det)
  /\ UNCHANGED <<mmVars, histVars, isProcessingFrame, captureActive, beginPc,
                 framePc, frameParity, ui, card>>

NextDetector ==
  \/ DtAdd
  \/ DtRemove
  \/ DtDetect
  \/ DtReset
  \/ DtWorker
  \/ DtCallback

SpecDetector == Init /\ [][NextDetector]_vars

\* a detection that was called while nothing else was in flight and ran
\* alone
AloneDetections ==
  {i \in 1..Len(det.ops) :
     /\ det.ops[i].kind = "detect"
     /\ det.ops[i].pc = "done"
     /\ det.ops[i].undisturbed}

C37_ResetLeavesNothing ==
  /\ det.clearPc = "resolved" => det.afterReset = <<>>
  /\ det.restartedOver = <<>>
  /\ \A i, j \in 1..Len(det.live) :
        i # j => det.live[i].idx # det.live[j].idx

-----------------------------------------------------------------------------
(* The OnboardingCard element and PerceptionToolkit.start().  card.nexts    *)
(* are the calls of next() suspended in a fade; card.done records, for      *)
(* every call of next() that has returned, the index it was called at,      *)
(* the index it moved to and whether it fired onboardingfinished.           *)

MaxItems == 3
MaxClicks == 4

\* clamp(value, min, max) of utils/clamp.js
clamp(value, min, max) ==
  IF value < min THEN min ELSE IF value > max THEN max ELSE value

\* gotoItem({from}) returns without awaiting an animation: there is no
\* element to go to, from and to are the same, or the card scrolls
gotoItemReturnsAtOnce(c, from, to) ==
  \/ to < 0 \/ to >= c.itemMax
  \/ from < 0 \/ from >= c.itemMax
  \/ from = to
  \/ c.mode # "fade"

\* next() after `await this.gotoItem({ from })`: the event is fired when the
\* index is (now) the one the call started from
nextResume(c, call) ==
  LET fires == call.from = c.itemInternal
  IN [c EXCEPT !.finished = IF fires THEN @ + 1 ELSE @,
               !.done = @ \cup {[from |-> call.from, to |-> call.to,
                                 itemMax |-> c.itemMax, fired |-> fires]},
               !.startPc = IF fires /\ @ = "waiting" THEN "detecting" ELSE @,
               !.present = IF fires /\ c.startPc = "waiting" THEN FALSE ELSE @]

\* next() up to its await, and through it when gotoItem does not wait
next(c) ==
  LET from == c.itemInternal
      to == clamp(c.itemInternal + 1, 0, c.itemMax - 1)
      moved == [c EXCEPT !.itemInternal = to, !.clicks = @ + 1]
      call == [from |-> from, to |-> to]
  IN IF gotoItemReturnsAtOnce(c, from, to) THEN nextResume(moved, call)
     ELSE [moved EXCEPT !.nexts = Append(@, call)]

\* onButtonClick: this.itemInternal = idx
onButtonClick(c, idx) == [c EXCEPT !.itemInternal = idx, !.clicks = @ + 1]

\* onIntersection: one element alone is in view; its index becomes the item
onIntersection(c, idx) == [c EXCEPT !.itemInternal = idx, !.clicks = @ + 1]

ObNext ==
  /\ card.present
  /\ card.clicks < MaxClicks
  /\ card' = next(card)
  /\ UNCHANGED <<mmVars, histVars, isProcessingFrame, captureActive, beginPc,
                 framePc, frameParity, ui, det>>

\* the fades of a suspended next() have ended
ObNextResume ==
  /\ card.nexts # <<>>
  /\ card' = nextResume([card EXCEPT !.nexts = Tail(@)], Head(card.nexts))
  /\ UNCHANGED <<mmVars, histVars, isProcessingFrame, captureActive, beginPc,
                 framePc, frameParity, ui, det>>

ObButtonClick ==
  \E idx \in 0..(card.itemMax - 1) :
    /\ card.present
    /\ card.clicks < MaxClicks
    /\ card' = onButtonClick(card, idx)
    /\ UNCHANGED <<mmVars, histVars, isProcessingFrame, captureActive, beginPc,
                   framePc, frameParity, ui, det>>

ObIntersection ==
  \E idx \in 0..(card.itemMax - 1) :
    /\ card.present
    /\ card.clicks < MaxClicks
    /\ card' = onIntersection(card, idx)
    /\ UNCHANGED <<mmVars, histVars, isProcessingFrame, captureActive, beginPc,
                   framePc, frameParity, ui, det>>

\* start() up to onboardingComplete: init, the stores and the sources
ObStart ==
  /\ card.startPc = "none"
  /\ card' = [card EXCEPT !.startPc = "loading"]
  /\ UNCHANGED <<mmVars, histVars, isProcessingFrame, captureActive, beginPc,
                 framePc, frameParity, ui, det>>

\* onboardingComplete: without a card it returns, with one it listens for
\* onboardingfinished
ObOnboardingComplete ==
  /\ card.startPc = "loading"
  /\ card' = [card EXCEPT !.startPc = IF card.present THEN "waiting"
                                      ELSE "detecting"]
  /\ UNCHANGED <<mmVars, histVars, isProcessingFrame, captureActive, beginPc,
                 framePc, frameParity, ui, det>>

NextOnboarding ==
  \/ ObNext
  \/ ObNextResume
  \/ ObButtonClick
  \/ ObIntersection
  \/ ObStart
  \/ ObOnboardingComplete

\* a page with an onboarding card of one to MaxItems steps
InitOnboarding ==
  /\ InitMM
  /\ InitCapture
  /\ ui = NoUi
  /\ det = NoDetector
  /\ card \in { [NoCard EXCEPT !.present = TRUE, !.itemMax = n, !.mode = mode] :
                  n \in 1..MaxItems, mode \in {"scroll", "fade"} }

SpecOnboarding == InitOnboarding /\ [][NextOnboarding]_vars

\* C38: with itemMax >= 1 the index stays within 0..itemMax-1, a call of
\* next() at index i moves it to min(i+1, itemMax-1) and fires
\* onboardingfinished exactly when it was called at the last index; start()
\* does not reach beginDetection before the event was fired.
C38_NextAndFinished ==
  /\ card.itemInternal \in 0..(card.itemMax - 1)
  /\ \A call \in card.done :
       /\ call.to = (IF call.from + 1 < call.itemMax - 1 THEN call.from + 1
                     ELSE call.itemMax - 1)
       /\ call.fired <=> (call.from = call.itemMax - 1)
  /\ card.startPc = "detecting" => card.finished >= 1

====
